---- MODULE Spec2Model ----
(***************************************************************************)
(* Model of the structural verification scripts of the repository:         *)
(*   tools/scripts/verify-app-routes.mjs          (src/unnamed/part_002)   *)
(*   tools/scripts/verify-structure.mjs           (src/unnamed/part_001)   *)
(*   tools/scripts/verify-feature-routes.mjs                               *)
(*   tools/scripts/verify-no-cross-feature-imports.mjs                     *)
(* Each script is a one-shot batch program: it reads the tree, walks it,   *)
(* accumulates violations in `errors` and ends with an exit status.        *)
(* The tree a run reads is chosen in the initial state and never changes.  *)
(*                                                                         *)
(* Strings the scripts take apart are modelled structurally:               *)
(*  - a deferred-import argument './features/a/a.routes' is the record     *)
(*    [dirs |-> <<".", "features", "a">>, stem |-> "a", ext |-> "routes"]; *)
(*  - a path or an import specifier is the sequence of its segments.       *)
(***************************************************************************)
EXTENDS Integers, Sequences, FiniteSets, TLC

VARIABLES
    prog,               \* the script this process runs
    pc,                 \* position of the running script
    errors,             \* the script's `errors` array, in push order
    exitCode,           \* -1 while running, else the process exit status
    idx,                \* index of the loop of main (1-based)
    wildcardCount,      \* verify-app-routes: let wildcardCount
    appRoutes,          \* app.routes.ts as the scripts see it
    wsRoot,             \* absolute path of the workspace root, as segments
    appRootExists,      \* fs.existsSync(appRoot)
    featuresDirExists,  \* fs.existsSync(featuresDir)
    features,           \* feature folders in readdir order
    featureFiles,       \* *.ts files under the features dir, in listing order
    appFiles,           \* *.ts files under the app root that the scans can flag
    parsed,             \* files of the features directory the loops of main parsed so far
    out,                \* what the process printed when it ended
    args,               \* generate-feature: the command line
    fsys,               \* getWorkspaceContext: the directories above the start and the manifest
    dir,                \* findWorkspaceRoot: let dir, as its depth below the filesystem root
    result,             \* getWorkspaceContext: what the resolution returned
    startTree,          \* the tree as it was when the process started
    runs,               \* generate-feature: processes started so far
    failed,             \* post-bootstrap-verify: let failed
    warnings,           \* post-bootstrap-verify: let warnings
    continueVerification, \* post-bootstrap-verify: main's continueVerification
    ran,                \* post-bootstrap-verify: the steps executed, with outcome
    git,                \* post-bootstrap-verify: what initializeGit did
    schemeSignal,       \* ThemeService: the value of schemeSignal
    themeSource,        \* ThemeService: themeSource
    localStorage,       \* the stored 'app-color-scheme' item
    htmlDark,           \* document.documentElement has the class 'dark'
    prefersDark,        \* matchMedia('(prefers-color-scheme: dark)').matches
    effectPending,      \* the constructor's effect is scheduled to run
    darkLog             \* isDark() at construction and after each toggle since

vars == <<prog, pc, errors, exitCode, idx, wildcardCount, appRoutes, wsRoot,
          appRootExists, featuresDirExists, features, featureFiles, appFiles,
          parsed, out, args, fsys, dir, result, startTree, runs, failed, warnings,
          continueVerification, ran, git, schemeSignal, themeSource, localStorage,
          htmlDark, prefersDark, effectPending, darkLog>>

\* the variables of post-bootstrap-verify and of the ThemeService
Others == <<failed, warnings, continueVerification, ran, git, schemeSignal,
            themeSource, localStorage, htmlDark, prefersDark, effectPending, darkLog>>

(***************************************************************************)
(* Bounds of the model.                                                    *)
(***************************************************************************)
MaxRoutes == 3     \* elements of the exported array of app.routes.ts
MaxFiles == 2      \* *.ts files listed under the features directory
MaxImports == 2    \* import declarations in those files, all together
MaxElems == 2      \* route elements in the feature routes files, all together

RECURSIVE SeqsUpTo(_, _)
SeqsUpTo(S, n) ==
    IF n = 0 THEN {<<>>}
    ELSE LET shorter == SeqsUpTo(S, n - 1)
         IN  shorter \cup {Append(s, x) : s \in {t \in shorter : Len(t) = n - 1}, x \in S}

(***************************************************************************)
(* What a script prints when it ends.                                      *)
(***************************************************************************)
NoOutput == [stream |-> "none", count |-> 0, lines |-> <<>>]

\* die(msg): one line on the error stream, then process.exit(1)
Fatal(msg) == [stream |-> "stderr", count |-> 0, lines |-> <<[fatal |-> msg]>>]

\* console.log of the single affirming line
OkLine == [stream |-> "stdout", count |-> 0, lines |-> <<>>]

\* Mutation: the header counts every violation but only the first is listed.
Printed_FirstOnly(errs) ==
    IF Len(errs) > 0
      THEN [stream |-> "stderr", count |-> Len(errs), lines |-> <<errs[1]>>]
      ELSE OkLine

\* if (errors.length) { header with errors.length; one bullet per element }
\* else the affirming line
Printed(errs) ==
    IF Len(errs) > 0
      THEN [stream |-> "stderr", count |-> Len(errs), lines |-> errs]
      ELSE OkLine

\* process.exit(1) after the bullets, else the process ends with status 0
ExitStatus(errs) == IF Len(errs) > 0 THEN 1 ELSE 0

\* The inputs and variables a script does not use.
NoArgs == [name |-> "", route |-> "", register |-> FALSE, overwrite |-> FALSE]
NoFsys == [start |-> 0, manifests |-> {}, parses |-> TRUE,
           projects |-> <<>>, defaultProject |-> ""]
NoResult == [root |-> -1, project |-> ""]

\* post-bootstrap-verify not running
NoGit == [attempted |-> FALSE, initialized |-> FALSE, committed |-> FALSE,
          returned |-> FALSE]

NoPbv ==
    /\ failed = 0
    /\ warnings = 0
    /\ continueVerification = TRUE
    /\ ran = <<>>
    /\ git = NoGit

\* no ThemeService constructed
NoTheme ==
    /\ schemeSignal = "auto"
    /\ themeSource = "browser-preference"
    /\ localStorage = "absent"
    /\ htmlDark = FALSE
    /\ prefersDark = FALSE
    /\ effectPending = FALSE
    /\ darkLog = <<>>

(***************************************************************************)
(* Deferred-import arguments.                                              *)
(***************************************************************************)
Arg(dirs, stem, ext) == [dirs |-> dirs, stem |-> stem, ext |-> ext]

NotFoundArg    == Arg(<<".", "shared", "pages">>, "not-found", "page")
HomePageArg    == Arg(<<".", "features", "a">>, "a", "page")
FeatureArg     == Arg(<<".", "features", "a">>, "a", "routes")
MismatchArg    == Arg(<<".", "features", "a">>, "b", "routes")
OutsideArg     == Arg(<<".", "shared">>, "a", "routes")

\* A property initializer: absent, or an expression that holds either no
\* import(...) call or one whose first argument is the string literal `arg`.
Absent      == [present |-> FALSE, hasImport |-> FALSE, arg |-> NotFoundArg]
NoImport    == [present |-> TRUE,  hasImport |-> FALSE, arg |-> NotFoundArg]
Import(a)   == [present |-> TRUE,  hasImport |-> TRUE,  arg |-> a]

(***************************************************************************)
(* verify-app-routes.mjs                                                   *)
(***************************************************************************)
\* arg0.text.startsWith('./features/') && arg0.text.endsWith('.routes')
loadChildrenLooksLikeFeaturesImport(init) ==
    /\ init.hasImport
    /\ Len(init.arg.dirs) >= 2
    /\ init.arg.dirs[1] = "."
    /\ init.arg.dirs[2] = "features"
    /\ init.arg.ext = "routes"

\* Mutation: any deferred import of a *.page file is taken for the not-found
\* page.
loadComponentLooksLikeNotFound_AnyPage(init) ==
    /\ init.hasImport
    /\ init.arg.ext = "page"

\* arg0.text === './shared/pages/not-found.page'
loadComponentLooksLikeNotFound(init) ==
    /\ init.hasImport
    /\ init.arg = NotFoundArg

\* A route element as the walk reads it. path: "none" when the element has no
\* `path` property or its initializer is not a string literal.
RouteObj(component, path, redirectTo, pathMatch, lc, lch) ==
    [isObj |-> TRUE, component |-> component, path |-> path,
     redirectTo |-> redirectTo, pathMatch |-> pathMatch,
     loadComponent |-> lc, loadChildren |-> lch]

NonObject == [isObj |-> FALSE, component |-> FALSE, path |-> "none",
              redirectTo |-> FALSE, pathMatch |-> FALSE,
              loadComponent |-> Absent, loadChildren |-> Absent]

AppElems ==
    {NonObject}
    \cup {RouteObj(c, "none", FALSE, FALSE, Absent, Absent) : c \in BOOLEAN}
    \cup {RouteObj(FALSE, "", r, m, Absent, Absent) : r \in BOOLEAN, m \in BOOLEAN}
    \cup {RouteObj(FALSE, "", TRUE, TRUE, Import(HomePageArg), Absent),
          RouteObj(TRUE, "", TRUE, TRUE, Absent, Absent)}
    \cup {RouteObj(FALSE, "**", FALSE, FALSE, lc, Absent) :
            lc \in {Absent, Import(NotFoundArg), Import(HomePageArg)}}
    \cup {RouteObj(TRUE, "**", FALSE, FALSE, Import(NotFoundArg), Absent)}
    \cup {RouteObj(FALSE, "x", FALSE, FALSE, Absent, lch) :
            lch \in {Absent, NoImport, Import(FeatureArg), Import(MismatchArg),
                     Import(OutsideArg)}}
    \cup {RouteObj(TRUE, "x", FALSE, FALSE, Absent, Import(FeatureArg))}

Err(msg) == [msg |-> msg]

\* Mutation: `component` is looked for after the path branches, so only
\* elements that reach the loadChildren checks are tested for it.
AppElementErrors_ComponentAfterPath(el) ==
    IF ~el.isObj THEN <<Err("APP_ROUTES must contain only route objects")>>
    ELSE IF el.path = "none" THEN <<Err("must have a literal string path")>>
    ELSE IF el.path = ""
      THEN IF ~el.redirectTo \/ ~el.pathMatch
             THEN <<Err("empty path route must be a redirect")>>
             ELSE <<>>
    ELSE IF el.path = "**"
      THEN IF ~el.loadComponent.present
                \/ ~loadComponentLooksLikeNotFound(el.loadComponent)
             THEN <<Err("wildcard route must loadComponent not-found.page")>>
             ELSE <<>>
    ELSE (IF el.component THEN <<Err("must not use component")>> ELSE <<>>)
         \o (IF ~el.loadChildren.present
               THEN <<[msg |-> "must use loadChildren", path |-> el.path]>>
             ELSE IF ~loadChildrenLooksLikeFeaturesImport(el.loadChildren)
               THEN <<[msg |-> "loadChildren must import feature routes",
                       path |-> el.path]>>
             ELSE <<>>)

\* The violations one iteration of `for (const el of arr.elements)` pushes.
AppElementErrors(el) ==
    IF ~el.isObj THEN <<Err("APP_ROUTES must contain only route objects")>>
    ELSE
      (IF el.component THEN <<Err("must not use component")>> ELSE <<>>)
      \o
      (IF el.path = "none"
         THEN <<Err("must have a literal string path")>>
       ELSE IF el.path = ""
         THEN IF ~el.redirectTo \/ ~el.pathMatch
                THEN <<Err("empty path route must be a redirect")>>
                ELSE <<>>
       ELSE IF el.path = "**"
         THEN IF ~el.loadComponent.present
                   \/ ~loadComponentLooksLikeNotFound(el.loadComponent)
                THEN <<Err("wildcard route must loadComponent not-found.page")>>
                ELSE <<>>
       ELSE IF ~el.loadChildren.present
         THEN <<[msg |-> "must use loadChildren", path |-> el.path]>>
       ELSE IF ~loadChildrenLooksLikeFeaturesImport(el.loadChildren)
         THEN <<[msg |-> "loadChildren must import feature routes", path |-> el.path]>>
       ELSE <<>>)

\* Mutation: a wildcard is counted only when its loader is the accepted one.
AppElementIsWildcard_ValidOnly(el) ==
    /\ el.isObj
    /\ el.path = "**"
    /\ el.loadComponent.present
    /\ loadComponentLooksLikeNotFound(el.loadComponent)

\* wildcardCount++ happens only on the '**' branch, which an element reaches
\* when it is an object literal with a literal path.
AppElementIsWildcard(el) == el.isObj /\ el.path = "**"

WildcardError(n) == [msg |-> "exactly one wildcard", found |-> n]

AppInit ==
    /\ prog = "verify-app-routes"
    /\ runs = 0
    /\ parsed = 0
    /\ out = NoOutput
    /\ args = NoArgs
    /\ fsys = NoFsys
    /\ dir = 0
    /\ result = NoResult
    /\ NoPbv
    /\ NoTheme
    /\ pc = "start"
    /\ errors = <<>>
    /\ exitCode = -1
    /\ idx = 1
    /\ wildcardCount = 0
    /\ \E ex \in BOOLEAN, has \in BOOLEAN, els \in SeqsUpTo(AppElems, MaxRoutes) :
          /\ (~ex => ~has)
          /\ (~has => els = <<>>)
          /\ appRoutes = [exists |-> ex, hasRoutes |-> has, elements |-> els,
                          staticPageImport |-> FALSE]
    /\ wsRoot = <<"ws">>
    /\ appRootExists = TRUE
    /\ featuresDirExists = TRUE
    /\ features = <<>>
    /\ featureFiles = <<>>
    /\ appFiles = <<>>

Tree == <<prog, appRoutes, wsRoot, appRootExists, featuresDirExists, features,
          featureFiles, appFiles, args, fsys, dir, result, startTree, runs, Others>>

\* lines 99-106: the two fatal exits, then the loop starts
AppStart ==
    /\ prog = "verify-app-routes"
    /\ pc = "start"
    /\ IF ~appRoutes.exists \/ ~appRoutes.hasRoutes
         THEN /\ pc' = "died"
              /\ exitCode' = 1
              /\ out' = Fatal(IF ~appRoutes.exists THEN "Missing app.routes.ts"
                               ELSE "app.routes.ts must export const routes")
         ELSE /\ pc' = "walk"
              /\ exitCode' = exitCode
              /\ out' = out
    /\ UNCHANGED <<errors, idx, wildcardCount, parsed, Tree>>

\* lines 108-152: one loop iteration
AppVisit ==
    /\ prog = "verify-app-routes"
    /\ pc = "walk"
    /\ idx <= Len(appRoutes.elements)
    /\ LET el == appRoutes.elements[idx]
       IN  /\ errors' = errors \o AppElementErrors(el)
           /\ wildcardCount' = wildcardCount + (IF AppElementIsWildcard(el) THEN 1 ELSE 0)
    /\ idx' = idx + 1
    /\ UNCHANGED <<out, pc, exitCode, parsed, Tree>>

\* lines 154-158: the cardinality check after the walk
AppWildcardCheck ==
    /\ prog = "verify-app-routes"
    /\ pc = "walk"
    /\ idx > Len(appRoutes.elements)
    /\ errors' = IF wildcardCount # 1
                   THEN Append(errors, WildcardError(wildcardCount))
                   ELSE errors
    /\ pc' = "report"
    /\ UNCHANGED <<out, exitCode, idx, wildcardCount, parsed, Tree>>

\* lines 160-166: print and exit
AppReport ==
    /\ prog = "verify-app-routes"
    /\ pc = "report"
    /\ exitCode' = ExitStatus(errors)
    /\ out' = Printed(errors)
    /\ pc' = "done"
    /\ UNCHANGED <<errors, idx, wildcardCount, parsed, Tree>>

AppNext == AppStart \/ AppVisit \/ AppWildcardCheck \/ AppReport


(***************************************************************************)
(* _workspace.mjs: the paths of the workspace context.                     *)
(***************************************************************************)
\* path.join(sourceRoot, 'app') with sourceRoot = <workspaceRoot>/src
appRoot == wsRoot \o <<"src", "app">>

\* path.join(appRoot, 'features')
featuresDir == appRoot \o <<"features">>

(***************************************************************************)
(* verify-no-cross-feature-imports.mjs                                     *)
(*                                                                         *)
(* An absolute path is the sequence of its segments below '/'.  A file of  *)
(* featureFiles is [dir, name, imports]: `dir` the directory that holds it,*)
(* relative to the features directory, `imports` the module specifiers of  *)
(* its import declarations in source order, each a sequence of segments.   *)
(***************************************************************************)
LastIndexOf(parts, x) ==
    LET hits == {k \in DOMAIN parts : parts[k] = x}
    IN  IF hits = {} THEN 0 ELSE CHOOSE k \in hits : \A j \in hits : j <= k

\* null is the empty string: the callers only test the result for truthiness.
Null == ""

\* parts.lastIndexOf('features'); parts[idx + 1] ?? null
featureOfFile(filePath) ==
    LET i0 == LastIndexOf(filePath, "features")
    IN  IF i0 = 0 THEN Null
        ELSE IF i0 + 1 \in DOMAIN filePath THEN filePath[i0 + 1] ELSE Null

\* path.resolve: '.' is dropped, '..' removes the last segment (none at '/').
RECURSIVE Normalize(_, _)
Normalize(base, segs) ==
    IF segs = <<>> THEN base
    ELSE LET h == Head(segs)
         IN  IF h = "." THEN Normalize(base, Tail(segs))
             ELSE IF h = ".."
               THEN Normalize(IF base = <<>> THEN base
                              ELSE SubSeq(base, 1, Len(base) - 1), Tail(segs))
             ELSE Normalize(Append(base, h), Tail(segs))

\* spec.startsWith('.'), for the segments the model draws specifiers from
StartsWithDot(spec) == spec # <<>> /\ spec[1] \in {".", ".."}

AbsFile(f) == featuresDir \o f.dir \o <<f.name>>
AbsDir(f) == featuresDir \o f.dir

\* Mutation: every specifier is resolved against the importing directory.
resolveRelative_NoDotTest(f, spec) ==
    [ok |-> TRUE, path |-> Normalize(AbsDir(f), spec)]

\* null (ok = FALSE) unless the specifier starts with '.'
resolveRelative(f, spec) ==
    IF ~StartsWithDot(spec) THEN [ok |-> FALSE, path |-> <<>>]
    ELSE [ok |-> TRUE, path |-> Normalize(AbsDir(f), spec)]

\* resolved.includes('features' + path.sep): some segment that ends in
\* 'features' is followed by a separator
IncludesFeaturesSep(p) == \E k \in DOMAIN p : p[k] = "features" /\ k < Len(p)

CrossError(f, from, spec, to) ==
    [msg |-> "cross-feature import", file |-> f.dir \o <<f.name>>,
     from |-> from, spec |-> spec, to |-> to]

\* lines 68-83: the violations of the imports of one file, from the k-th on
RECURSIVE CrossImportErrors(_, _, _)
CrossImportErrors(f, fromFeature, k) ==
    IF k > Len(f.imports) THEN <<>>
    ELSE LET spec == f.imports[k]
             resolved == resolveRelative(f, spec)
             toFeature == featureOfFile(resolved.path)
             here == IF /\ resolved.ok
                        /\ IncludesFeaturesSep(resolved.path)
                        /\ toFeature # Null
                        /\ toFeature # fromFeature
                       THEN <<CrossError(f, fromFeature, spec, toFeature)>>
                       ELSE <<>>
         IN  here \o CrossImportErrors(f, fromFeature, k + 1)

\* lines 61-84: one iteration of `for (const fp of featureFiles)`
CrossFileErrors(f) ==
    LET fromFeature == featureOfFile(AbsFile(f))
    IN  IF fromFeature = Null THEN <<>> ELSE CrossImportErrors(f, fromFeature, 1)

\* The inputs: where a file sits and what it imports.
FileDirs == {<<"a">>, <<"b">>, <<"a", "sub">>, <<"a", "features">>}

ImportSpecs ==
    { <<".", "x">>,                          \* ./x
      <<"..", "a", "x">>,                    \* ../a/x
      <<"..", "b", "x">>,                    \* ../b/x
      <<"..", "..", "b", "x">>,              \* ../../b/x
      <<"..", "..", "shared", "x">>,         \* ../../shared/x
      <<".", "features", "b", "x">>,         \* ./features/b/x
      <<"..", "b", "features", "a", "x">>,   \* ../b/features/a/x
      <<"features", "b", "x">> }             \* features/b/x (a package or alias)

\* The listing whose k-th file sits in dirs[k] and holds the next counts[k]
\* of the specifiers of `flat`.
RECURSIVE SumTo(_, _)
SumTo(counts, k) == IF k = 0 THEN 0 ELSE counts[k] + SumTo(counts, k - 1)

\* The k-th listed file is named after its position, so no two files of a
\* listing are the same file.
FileNames == <<"f1.ts", "f2.ts", "f3.ts", "f4.ts">>

MakeListing(dirs, counts, flat) ==
    [k \in DOMAIN dirs |->
        [dir |-> dirs[k], name |-> FileNames[k],
         imports |-> SubSeq(flat, SumTo(counts, k - 1) + 1, SumTo(counts, k))]]

WorkspaceRoots == {<<"ws">>, <<"features", "ws">>}

CrossInit ==
    /\ prog = "verify-no-cross-feature-imports"
    /\ runs = 0
    /\ parsed = 0
    /\ out = NoOutput
    /\ args = NoArgs
    /\ fsys = NoFsys
    /\ dir = 0
    /\ result = NoResult
    /\ NoPbv
    /\ NoTheme
    /\ pc = "start"
    /\ errors = <<>>
    /\ exitCode = -1
    /\ idx = 1
    /\ wildcardCount = 0
    /\ appRoutes = [exists |-> TRUE, hasRoutes |-> TRUE, elements |-> <<>>,
                    staticPageImport |-> FALSE]
    /\ wsRoot \in WorkspaceRoots
    /\ appRootExists = TRUE
    /\ featuresDirExists \in BOOLEAN
    /\ features = <<>>
    /\ IF ~featuresDirExists THEN featureFiles = <<>>
       ELSE \E n \in 0..MaxFiles :
              \E counts \in [1..n -> 0..MaxImports] :
                /\ SumTo(counts, n) <= MaxImports
                /\ \E dirs \in [1..n -> FileDirs],
                      flat \in [1..SumTo(counts, n) -> ImportSpecs] :
                      featureFiles = MakeListing(dirs, counts, flat)
    /\ appFiles = <<>>

\* lines 51-59: without a features directory main returns at once
CrossStart ==
    /\ prog = "verify-no-cross-feature-imports"
    /\ pc = "start"
    /\ IF ~featuresDirExists
         THEN /\ pc' = "done"
              /\ exitCode' = 0
              /\ out' = OkLine
         ELSE /\ pc' = "walk"
              /\ exitCode' = exitCode
              /\ out' = out
    /\ UNCHANGED <<errors, idx, wildcardCount, parsed, Tree>>

\* lines 61-84
CrossVisitFile ==
    /\ prog = "verify-no-cross-feature-imports"
    /\ pc = "walk"
    /\ idx <= Len(featureFiles)
    /\ errors' = errors \o CrossFileErrors(featureFiles[idx])
    /\ parsed' = parsed + (IF featureOfFile(AbsFile(featureFiles[idx])) = Null
                             THEN 0 ELSE 1)
    /\ idx' = idx + 1
    /\ UNCHANGED <<out, pc, exitCode, wildcardCount, Tree>>

\* Mutation: the report empties the listing it has read.
CrossReport_Truncates ==
    /\ prog = "verify-no-cross-feature-imports"
    /\ pc = "walk"
    /\ idx > Len(featureFiles)
    /\ exitCode' = ExitStatus(errors)
    /\ out' = Printed(errors)
    /\ pc' = "done"
    /\ featureFiles' = <<>>
    /\ UNCHANGED <<errors, idx, wildcardCount, parsed, prog, appRoutes, wsRoot,
                   appRootExists, featuresDirExists, features, appFiles, args, fsys,
                   dir, result, startTree, runs, Others>>

\* lines 86-94
CrossReport ==
    /\ prog = "verify-no-cross-feature-imports"
    /\ pc = "walk"
    /\ idx > Len(featureFiles)
    /\ exitCode' = ExitStatus(errors)
    /\ out' = Printed(errors)
    /\ pc' = "done"
    /\ UNCHANGED <<errors, idx, wildcardCount, parsed, Tree>>

CrossNext == CrossStart \/ CrossVisitFile \/ CrossReport


(***************************************************************************)
(* The feature folders.                                                    *)
(*                                                                         *)
(* A feature folder is [name, files, exported]: `files` the kinds k of     *)
(* <name>.<k>.ts that exist, `exported` the array literals that            *)
(* <name>.routes.ts exports, in source order, each [name, elements].       *)
(***************************************************************************)
FeatObj(component, path, providers, lc, lch) ==
    [isObj |-> TRUE, component |-> component, path |-> path,
     providers |-> providers, loadComponent |-> lc, loadChildren |-> lch,
     children |-> <<>>]

\* the element with a `children: [ ... ]` property holding the elements ch
WithChildren(el, ch) == [el EXCEPT !.children = ch]

FeatNonObject == [isObj |-> FALSE, component |-> FALSE, path |-> "none",
                  providers |-> "absent", loadComponent |-> Absent,
                  loadChildren |-> Absent, children |-> <<>>]

PageArg    == Arg(<<".">>, "a", "page")
StateArg   == Arg(<<".">>, "a", "state")

\* The first route the generator's template writes.
TemplateRoute == FeatObj(FALSE, "", "nonempty", Import(PageArg), Absent)

FeatElems ==
    { FeatNonObject,
      TemplateRoute,
      FeatObj(FALSE, "", "empty", Import(PageArg), Absent),
      FeatObj(FALSE, "", "absent", Import(PageArg), Absent),
      FeatObj(FALSE, "", "nonempty", Absent, NoImport),
      FeatObj(FALSE, "", "nonempty", Absent, Absent),
      FeatObj(FALSE, "x", "nonempty", Import(StateArg), Absent),
      FeatObj(FALSE, "x", "absent", Import(PageArg), Absent),
      FeatObj(TRUE, "none", "nonempty", Import(PageArg), Absent),
      WithChildren(TemplateRoute,
                   <<FeatObj(FALSE, "x", "absent", Import(StateArg), Absent)>>),
      WithChildren(TemplateRoute,
                   <<FeatObj(FALSE, "x", "absent", Import(PageArg), Absent)>>) }

FeatureNames == {"a", "b"}
ExportNames == <<"A_ROUTES", "EXTRA_ROUTES">>
RequiredKinds == {"routes", "page", "data", "state"}

\* Listings of the features directory: no name twice.
FeatureListings ==
    {<<>>} \cup {<<n>> : n \in FeatureNames}
           \cup {l \in {<<n, m>> : n \in FeatureNames, m \in FeatureNames} :
                    l[1] # l[2]}

(***************************************************************************)
(* verify-feature-routes.mjs                                               *)
(***************************************************************************)
\* Mutation: the guard on the directory is missing, so readdirSync is reached
\* (and throws) when the directory does not exist.
listFeatureNames_NoGuard(dirExists, listing) ==
    [threw |-> ~dirExists, names |-> listing]

\* if (!exists(featuresDir)) return []; else the directories of readdirSync
listFeatureNames(dirExists, listing) ==
    IF ~dirExists THEN [threw |-> FALSE, names |-> <<>>]
    ELSE [threw |-> FALSE, names |-> listing]

\* Mutation: a `providers` property counts only with a non-empty list.
objectHasProviders_NonEmpty(el) == el.providers = "nonempty"

\* objectHasProp(el, 'providers'): a property assignment of that name exists
objectHasProviders(el) == el.providers # "absent"

\* some import(...) call in the initializer has a string argument that ends
\* in '.page'
loadComponentImportsPage(init) == init.hasImport /\ init.arg.ext = "page"

FeatErr(msg, file, export) == [msg |-> msg, file |-> file, export |-> export]

\* lines 106-134: the checks that only the first element of an array gets
FirstRouteErrors(file, ex, el) ==
    (IF el.path # ""
       THEN <<FeatErr("first route must have path ''", file, ex.name)>> ELSE <<>>)
    \o (IF ~objectHasProviders(el)
          THEN <<FeatErr("first route must declare providers", file, ex.name)>>
          ELSE <<>>)
    \o (IF ~el.loadComponent.present /\ ~el.loadChildren.present
          THEN <<FeatErr("first route must use loadComponent or loadChildren",
                         file, ex.name)>>
          ELSE <<>>)
    \o (IF el.loadComponent.present /\ ~loadComponentImportsPage(el.loadComponent)
          THEN <<FeatErr("first route loadComponent should import a *.page file",
                         file, ex.name)>>
          ELSE <<>>)

\* lines 94-142: the body of elements.forEach for the element at 0-based k
FeatElementErrors(file, ex, el, k) ==
    IF ~el.isObj
      THEN <<[msg |-> "non-object route", file |-> file, export |-> ex.name,
              index |-> k]>>
    ELSE (IF el.component
            THEN <<FeatErr("must not use component", file, ex.name)>> ELSE <<>>)
         \o (IF k = 0 THEN FirstRouteErrors(file, ex, el) ELSE <<>>)
         \o (IF el.loadComponent.present /\ ~loadComponentImportsPage(el.loadComponent)
               THEN <<FeatErr("loadComponent not importing a *.page file",
                              file, ex.name)>>
               ELSE <<>>)

RECURSIVE FeatElementsErrors(_, _, _)
FeatElementsErrors(file, ex, k) ==
    IF k > Len(ex.elements) THEN <<>>
    ELSE FeatElementErrors(file, ex, ex.elements[k], k - 1)
         \o FeatElementsErrors(file, ex, k + 1)

\* lines 88-142: one iteration of `for (const ex of exported)`
FeatArrayErrors(file, ex) ==
    IF ex.elements = <<>>
      THEN <<FeatErr("export must not be empty", file, ex.name)>>
      ELSE FeatElementsErrors(file, ex, 1)

RECURSIVE FeatArraysErrors(_, _, _)
FeatArraysErrors(file, exported, k) ==
    IF k > Len(exported) THEN <<>>
    ELSE FeatArrayErrors(file, exported[k]) \o FeatArraysErrors(file, exported, k + 1)

\* Mutation: a file that exports no array yields no violation.
validateFeatureRoutesFile_NoExportSilent(f) ==
    IF f.exported = <<>> THEN <<>> ELSE FeatArraysErrors(f.name, f.exported, 1)

\* lines 78-145
validateFeatureRoutesFile(f) ==
    IF f.exported = <<>>
      THEN <<[msg |-> "must export at least one Routes array", file |-> f.name]>>
      ELSE FeatArraysErrors(f.name, f.exported, 1)

\* The folders whose k-th feature is named listing[k], has the files
\* files[k] and exports the next nArr[k] arrays, the j-th array of the tree
\* holding the next cnt[j] elements of `flat`.
MakeFeatures(listing, files, nArr, cnt, flat) ==
    [k \in DOMAIN listing |->
        [name |-> listing[k],
         files |-> files[k],
         exported |->
            [a \in 1..nArr[k] |->
                LET j == SumTo(nArr, k - 1) + a
                IN  [name |-> ExportNames[a],
                     elements |-> SubSeq(flat, SumTo(cnt, j - 1) + 1, SumTo(cnt, j))]]]]

\* Trees for the scripts that read the routes files: every <name>.routes.ts
\* either is absent or exports up to two arrays.
ContentTrees(fs) ==
    \E listing \in FeatureListings :
      \E hasRoutes \in [DOMAIN listing -> BOOLEAN],
         nArr \in [DOMAIN listing -> 0..Len(ExportNames)] :
        /\ \A k \in DOMAIN listing : ~hasRoutes[k] => nArr[k] = 0
        /\ \E cnt \in [1..SumTo(nArr, Len(listing)) -> 0..MaxElems] :
             /\ SumTo(cnt, SumTo(nArr, Len(listing))) <= MaxElems
             /\ \E flat \in [1..SumTo(cnt, SumTo(nArr, Len(listing))) -> FeatElems] :
                  fs = MakeFeatures(listing,
                          [k \in DOMAIN listing |->
                              IF hasRoutes[k] THEN RequiredKinds
                              ELSE RequiredKinds \ {"routes"}],
                          nArr, cnt, flat)

TemplateExport == <<[name |-> "A_ROUTES", elements |-> <<TemplateRoute>>]>>

\* The files Gate 1 of docs/VERIFICATION.md lists as required in each feature
DocumentedKinds == {"routes", "page", "data", "state", "models"}

\* Trees for the file-set check: any subset of the documented files, and a
\* routes file that is the template's, exports nothing, or starts with a
\* route that has no providers.
CannedExports ==
    { TemplateExport,
      <<>>,
      <<[name |-> "A_ROUTES",
         elements |-> <<FeatObj(FALSE, "", "absent", Import(PageArg), Absent)>>]>> }

FileSetTrees(fs) ==
    \E listing \in FeatureListings :
      \E files \in [DOMAIN listing -> SUBSET DocumentedKinds],
         content \in [DOMAIN listing -> CannedExports] :
        /\ \A k \in DOMAIN listing : "routes" \notin files[k] => content[k] = <<>>
        /\ fs = [k \in DOMAIN listing |->
                    [name |-> listing[k], files |-> files[k], exported |-> content[k]]]

DefaultAppRoutes == [exists |-> TRUE, hasRoutes |-> TRUE, elements |-> <<>>,
                     staticPageImport |-> FALSE]

FeatInit ==
    /\ prog = "verify-feature-routes"
    /\ runs = 0
    /\ parsed = 0
    /\ out = NoOutput
    /\ args = NoArgs
    /\ fsys = NoFsys
    /\ dir = 0
    /\ result = NoResult
    /\ NoPbv
    /\ NoTheme
    /\ pc = "start"
    /\ errors = <<>>
    /\ exitCode = -1
    /\ idx = 1
    /\ wildcardCount = 0
    /\ appRoutes = DefaultAppRoutes
    /\ wsRoot = <<"ws">>
    /\ appRootExists = TRUE
    /\ featuresDirExists \in BOOLEAN
    /\ IF featuresDirExists THEN ContentTrees(features) ELSE features = <<>>
    /\ featureFiles = <<>>
    /\ appFiles = <<>>

\* lines 148-153: the features are listed; a throw of readdirSync ends the
\* process with status 1
FeatStart ==
    /\ prog = "verify-feature-routes"
    /\ pc = "start"
    /\ LET l == listFeatureNames(featuresDirExists, [k \in DOMAIN features |-> features[k].name])
       IN  IF l.threw
             THEN /\ pc' = "threw"
                  /\ exitCode' = 1
                  /\ out' = Fatal("uncaught exception")
             ELSE /\ pc' = "walk"
                  /\ exitCode' = exitCode
                  /\ out' = out
    /\ UNCHANGED <<errors, idx, wildcardCount, parsed, Tree>>

\* lines 155-162: one iteration of `for (const f of features)`
FeatVisit ==
    /\ prog = "verify-feature-routes"
    /\ pc = "walk"
    /\ idx <= Len(features)
    /\ LET f == features[idx]
       IN  IF "routes" \notin f.files
             THEN /\ errors' = Append(errors, [msg |-> "Missing feature routes file",
                                               file |-> f.name])
                  /\ parsed' = parsed
             ELSE /\ errors' = errors \o validateFeatureRoutesFile(f)
                  /\ parsed' = parsed + 1
    /\ idx' = idx + 1
    /\ UNCHANGED <<out, pc, exitCode, wildcardCount, Tree>>

\* lines 164-172
FeatReport ==
    /\ prog = "verify-feature-routes"
    /\ pc = "walk"
    /\ idx > Len(features)
    /\ exitCode' = ExitStatus(errors)
    /\ out' = Printed(errors)
    /\ pc' = "done"
    /\ UNCHANGED <<errors, idx, wildcardCount, parsed, Tree>>

FeatNext == FeatStart \/ FeatVisit \/ FeatReport

(***************************************************************************)
(* verify-structure.mjs                                                    *)
(*                                                                         *)
(* A file of appFiles is a *.ts file under the app root, described by what *)
(* the two scans of the script read of it.                                 *)
(***************************************************************************)
AppFile(under, guarded, http, client, providedIn, rootLit) ==
    [underFeatures |-> under, guarded |-> guarded, importsHttp |-> http,
     mentionsHttpClient |-> client, hasProvidedIn |-> providedIn,
     hasRootLiteral |-> rootLit]

AppFileKinds ==
    { AppFile(TRUE, TRUE, TRUE, TRUE, FALSE, FALSE),      \* a page using HttpClient
      AppFile(TRUE, FALSE, FALSE, FALSE, TRUE, TRUE),     \* providedIn: 'root' in a feature
      AppFile(FALSE, FALSE, FALSE, FALSE, TRUE, TRUE),    \* providedIn: 'root' in shared/
      AppFile(FALSE, TRUE, TRUE, FALSE, FALSE, FALSE) }   \* a page that imports the http package only

\* if (!exists(dir)) return []; else the directories of readdirSync
listDirs(dirExists, listing) == IF ~dirExists THEN <<>> ELSE listing

RequiredOrder == <<"routes", "page", "data", "state">>

RECURSIVE FilterSeq(_, _)
FilterSeq(s, keep) ==
    IF s = <<>> THEN <<>>
    ELSE (IF Head(s) \in keep THEN <<Head(s)>> ELSE <<>>) \o FilterSeq(Tail(s), keep)

\* Mutation: only the first missing file is kept.
verifyFeatureFolder_FirstOnly(f) ==
    LET all == FilterSeq(RequiredOrder, RequiredKinds \ f.files)
    IN  IF all = <<>> THEN <<>> ELSE <<Head(all)>>

\* required.filter((f) => !exists(path.join(featureDir, f)))
verifyFeatureFolder(f) == FilterSeq(RequiredOrder, RequiredKinds \ f.files)

\* lines 214-223: the violation one feature folder gets in the first loop
FolderErrors(f) ==
    LET missing == verifyFeatureFolder(f)
    IN  IF Len(missing) > 0
          THEN <<[msg |-> "missing required files", feature |-> f.name,
                  missing |-> missing]>>
          ELSE <<>>

\* lines 117-131
verifyNoStaticPageImportsInAppRoutes ==
    IF ~appRoutes.exists THEN <<Err("Missing app.routes.ts")>>
    ELSE IF appRoutes.staticPageImport
      THEN <<Err("app.routes.ts must not statically import pages")>>
    ELSE <<>>

RECURSIVE verifyNoHttpClientInDisallowedFiles(_, _)
verifyNoHttpClientInDisallowedFiles(files, k) ==
    IF k > Len(files) THEN <<>>
    ELSE (IF files[k].guarded /\ files[k].importsHttp /\ files[k].mentionsHttpClient
            THEN <<[msg |-> "HttpClient is not allowed", file |-> k]>> ELSE <<>>)
         \o verifyNoHttpClientInDisallowedFiles(files, k + 1)

RECURSIVE verifyNoProvidedInRootInFeatures(_, _)
verifyNoProvidedInRootInFeatures(files, k) ==
    IF k > Len(files) THEN <<>>
    ELSE (IF files[k].underFeatures /\ files[k].hasProvidedIn /\ files[k].hasRootLiteral
            THEN <<[msg |-> "Avoid providedIn: 'root' in features", file |-> k]>>
            ELSE <<>>)
         \o verifyNoProvidedInRootInFeatures(files, k + 1)

\* Mutation: the providers are looked for in any element of the array.
routeObjectHasProviders_AnyElement(ex) ==
    \E k \in DOMAIN ex.elements :
        ex.elements[k].isObj /\ ex.elements[k].providers # "absent"

\* routeObjectHasProviders(first) for first = ex.arrayNode.elements[0]
routeObjectHasProviders(ex) == ex.elements[1].providers # "absent"

RECURSIVE StructArraysErrors(_, _, _)
StructArraysErrors(file, exported, k) ==
    IF k > Len(exported) THEN <<>>
    ELSE LET ex == exported[k]
         IN  (IF ex.elements = <<>> \/ ~ex.elements[1].isObj
                THEN <<FeatErr("must start with a route object", file, ex.name)>>
              ELSE IF ~routeObjectHasProviders(ex)
                THEN <<FeatErr("first route must declare providers", file, ex.name)>>
              ELSE <<>>)
             \o StructArraysErrors(file, exported, k + 1)

\* lines 173-196
verifyFeatureRouteProviders(f) ==
    IF "routes" \notin f.files THEN <<[msg |-> "Missing routes file", file |-> f.name]>>
    ELSE IF f.exported = <<>>
      THEN <<[msg |-> "must export a Routes array", file |-> f.name]>>
    ELSE StructArraysErrors(f.name, f.exported, 1)

\* The app-level inputs of the script: without an app root nothing below it
\* exists; a file under the features directory needs that directory.
AppLevelTrees ==
    \/ /\ appRootExists = FALSE
       /\ featuresDirExists = FALSE
       /\ appRoutes = [DefaultAppRoutes EXCEPT !.exists = FALSE, !.hasRoutes = FALSE]
       /\ features = <<>>
       /\ appFiles = <<>>
    \/ /\ appRootExists = TRUE
       /\ featuresDirExists \in BOOLEAN
       /\ appRoutes \in {DefaultAppRoutes,
                         [DefaultAppRoutes EXCEPT !.exists = FALSE, !.hasRoutes = FALSE],
                         [DefaultAppRoutes EXCEPT !.staticPageImport = TRUE]}
       /\ features \in (IF featuresDirExists
                          THEN {<<>>, <<[name |-> "a", files |-> RequiredKinds,
                                         exported |-> TemplateExport]>>}
                          ELSE {<<>>})
       /\ appFiles \in {<<>>} \cup
                       {<<f>> : f \in {g \in AppFileKinds :
                                         g.underFeatures => featuresDirExists}}

StructInit ==
    /\ prog = "verify-structure"
    /\ runs = 0
    /\ parsed = 0
    /\ out = NoOutput
    /\ args = NoArgs
    /\ fsys = NoFsys
    /\ dir = 0
    /\ result = NoResult
    /\ NoPbv
    /\ NoTheme
    /\ pc = "start"
    /\ errors = <<>>
    /\ exitCode = -1
    /\ idx = 1
    /\ wildcardCount = 0
    /\ wsRoot = <<"ws">>
    /\ featureFiles = <<>>
    /\ \/ /\ appRootExists = TRUE
          /\ featuresDirExists = TRUE
          /\ appRoutes = DefaultAppRoutes
          /\ appFiles = <<>>
          /\ (FileSetTrees(features) \/ ContentTrees(features))
       \/ AppLevelTrees

featureNames == listDirs(featuresDirExists, features)

\* Mutation: the empty listing is reported only for a directory that exists.
StartErrors_OnePerCondition(appExists, dirExists, names) ==
    (IF ~appExists THEN <<Err("App root not found")>> ELSE <<>>)
    \o (IF ~dirExists THEN <<Err("Features dir not found")>>
        ELSE IF Len(names) = 0 THEN <<Err("No feature folders found")>>
        ELSE <<>>)

\* lines 204-212: the three checks before the loops
StartErrors(appExists, dirExists, names) ==
    (IF ~appExists THEN <<Err("App root not found")>> ELSE <<>>)
    \o (IF ~dirExists THEN <<Err("Features dir not found")>> ELSE <<>>)
    \o (IF Len(names) = 0 THEN <<Err("No feature folders found")>> ELSE <<>>)

\* lines 199-212
StructStart ==
    /\ prog = "verify-structure"
    /\ pc = "start"
    /\ errors' = StartErrors(appRootExists, featuresDirExists, featureNames)
    /\ pc' = "folders"
    /\ UNCHANGED <<out, exitCode, idx, wildcardCount, parsed, Tree>>

\* lines 214-223: one iteration of the first `for (const f of featureNames)`
StructFolder ==
    /\ prog = "verify-structure"
    /\ pc = "folders"
    /\ idx <= Len(featureNames)
    /\ errors' = errors \o FolderErrors(featureNames[idx])
    /\ idx' = idx + 1
    /\ UNCHANGED <<out, pc, exitCode, wildcardCount, parsed, Tree>>

\* lines 225-230: the scans of app.routes.ts and of the files of the app root
StructAppScan ==
    /\ prog = "verify-structure"
    /\ pc = "folders"
    /\ idx > Len(featureNames)
    /\ errors' = errors
                 \o verifyNoStaticPageImportsInAppRoutes
                 \o (IF appRootExists
                       THEN verifyNoHttpClientInDisallowedFiles(appFiles, 1)
                            \o verifyNoProvidedInRootInFeatures(appFiles, 1)
                       ELSE <<>>)
    /\ pc' = IF appRootExists THEN "providers" ELSE "report"
    /\ idx' = 1
    /\ UNCHANGED <<out, exitCode, wildcardCount, parsed, Tree>>

\* lines 232-234: one iteration of the second `for (const f of featureNames)`
StructProviders ==
    /\ prog = "verify-structure"
    /\ pc = "providers"
    /\ idx <= Len(featureNames)
    /\ errors' = errors \o verifyFeatureRouteProviders(featureNames[idx])
    /\ parsed' = parsed + (IF "routes" \in featureNames[idx].files THEN 1 ELSE 0)
    /\ idx' = idx + 1
    /\ UNCHANGED <<out, pc, exitCode, wildcardCount, Tree>>

\* lines 237-245
StructReport ==
    /\ prog = "verify-structure"
    /\ \/ pc = "report"
       \/ pc = "providers" /\ idx > Len(featureNames)
    /\ exitCode' = ExitStatus(errors)
    /\ out' = Printed(errors)
    /\ pc' = "done"
    /\ UNCHANGED <<errors, idx, wildcardCount, parsed, Tree>>

StructNext ==
    StructStart \/ StructFolder \/ StructAppScan \/ StructProviders \/ StructReport

(***************************************************************************)
(* _workspace.mjs: getWorkspaceContext (src/unnamed/part_000)              *)
(*                                                                         *)
(* A directory is its depth below the filesystem root (0 is the root).     *)
(* fsys.start is path.resolve(startDir); fsys.manifests are the depths of  *)
(* the ancestors-or-self that hold an angular.json; the manifest found is  *)
(* [parses, projects, defaultProject], `projects` the members of the       *)
(* "projects" object in the order the file writes them.                    *)
(***************************************************************************)
MaxDepth == 2       \* depth of the start directory
MaxProjects == 2    \* members of "projects"
MaxRuns == 2        \* runs of the generator, one after the other

ProjectNames == {"web", "lib", "1"}
ProjectTypes == {"application", "library"}

\* The canonical numeric value of an integer-like property name, -1 for the
\* other names.
ArrayIndexOf(name) == IF name = "1" THEN 1 ELSE -1

\* Mutation: dirname gives back its argument.
dirname_Self(d) == d

\* path.dirname(dir): the parent, and the root for the root
dirname(d) == IF d = 0 THEN 0 ELSE d - 1

RECURSIVE SortedIndexNames(_)
SortedIndexNames(S) ==
    IF S = {} THEN <<>>
    ELSE LET n == CHOOSE x \in S : \A y \in S : ArrayIndexOf(x) <= ArrayIndexOf(y)
         IN  <<n>> \o SortedIndexNames(S \ {n})

RECURSIVE SelectProjects(_, _)
SelectProjects(ps, names) ==
    IF ps = <<>> THEN <<>>
    ELSE (IF Head(ps).name \in names THEN <<Head(ps)>> ELSE <<>>)
         \o SelectProjects(Tail(ps), names)

ProjectOf(ps, name) == ps[CHOOSE k \in DOMAIN ps : ps[k].name = name]

\* Object.entries(projects): the integer-like names in ascending numeric
\* order, then the other names in the order they were created
ObjectEntries(ps) ==
    LET names == {ps[k].name : k \in DOMAIN ps}
        indexNames == {n \in names : ArrayIndexOf(n) >= 0}
        sorted == SortedIndexNames(indexNames)
    IN  [k \in DOMAIN sorted |-> ProjectOf(ps, sorted[k])]
        \o SelectProjects(ps, names \ indexNames)

isApplicationProject(project) == project.projectType = "application"

HasProject(ps, name) == \E k \in DOMAIN ps : ps[k].name = name

\* The name returned, or died when the function ends in die().
getDefaultAppProjectName(m) ==
    LET entries == ObjectEntries(m.projects)
        apps == {k \in DOMAIN entries : isApplicationProject(entries[k])}
    IN  IF /\ m.defaultProject # ""
           /\ HasProject(m.projects, m.defaultProject)
           /\ isApplicationProject(ProjectOf(m.projects, m.defaultProject))
          THEN [died |-> FALSE, name |-> m.defaultProject]
        ELSE IF apps # {}
          THEN [died |-> FALSE,
                name |-> entries[CHOOSE k \in apps : \A j \in apps : k <= j].name]
        ELSE [died |-> TRUE, name |-> ""]

\* "projects" objects: no name twice
Manifests ==
    {ps \in SeqsUpTo([name : ProjectNames, projectType : ProjectTypes], MaxProjects) :
        \A i, j \in DOMAIN ps : ps[i].name = ps[j].name => i = j}

WsInit ==
    /\ prog = "getWorkspaceContext"
    /\ runs = 0
    /\ pc = "find"
    /\ errors = <<>>
    /\ exitCode = -1
    /\ idx = 1
    /\ wildcardCount = 0
    /\ parsed = 0
    /\ out = NoOutput
    /\ args = NoArgs
    /\ \E start \in 0..MaxDepth, parses \in BOOLEAN :
         \E ms \in SUBSET (0..start), ps \in Manifests,
            dp \in {""} \cup ProjectNames :
              /\ (ms = {} \/ ~parses) => (ps = <<>> /\ dp = "")
              /\ fsys = [start |-> start, manifests |-> ms, parses |-> parses,
                         projects |-> ps, defaultProject |-> dp]
    /\ dir = fsys.start
    /\ result = NoResult
    /\ NoPbv
    /\ NoTheme
    /\ wsRoot = <<"ws">>
    /\ appRootExists = TRUE
    /\ featuresDirExists = TRUE
    /\ appRoutes = DefaultAppRoutes
    /\ features = <<>>
    /\ featureFiles = <<>>
    /\ appFiles = <<>>

\* findWorkspaceRoot, lines 21-30: one iteration of while (true), with the
\* die() that follows the break
FindStep ==
    /\ prog = "getWorkspaceContext"
    /\ pc = "find"
    /\ IF dir \in fsys.manifests
         THEN /\ pc' = "read"
              /\ result' = [result EXCEPT !.root = dir]
              /\ UNCHANGED <<dir, exitCode, out>>
         ELSE IF dirname(dir) = dir
           THEN /\ pc' = "died"
                /\ exitCode' = 1
                /\ out' = Fatal("Unable to locate angular.json")
                /\ UNCHANGED <<dir, result>>
         ELSE /\ dir' = dirname(dir)
              /\ UNCHANGED <<pc, result, exitCode, out>>
    /\ UNCHANGED <<prog, errors, idx, wildcardCount, parsed, args, fsys, startTree, runs, Others,
                   appRoutes, wsRoot, appRootExists, featuresDirExists, features,
                   featureFiles, appFiles>>

\* readAngularJson, lines 33-42
ReadManifest ==
    /\ prog = "getWorkspaceContext"
    /\ pc = "read"
    /\ IF ~fsys.parses
         THEN /\ pc' = "died"
              /\ exitCode' = 1
              /\ out' = Fatal("Invalid JSON in angular.json")
         ELSE /\ pc' = "project"
              /\ UNCHANGED <<exitCode, out>>
    /\ UNCHANGED <<prog, errors, idx, wildcardCount, parsed, args, fsys, dir, result,
                   startTree, runs, Others, appRoutes, wsRoot, appRootExists, featuresDirExists,
                   features, featureFiles, appFiles>>

\* getWorkspaceContext, lines 78-96: the project is chosen and the context
\* returned
ChooseProject ==
    /\ prog = "getWorkspaceContext"
    /\ pc = "project"
    /\ LET r == getDefaultAppProjectName(fsys)
       IN  IF r.died
             THEN /\ pc' = "died"
                  /\ exitCode' = 1
                  /\ out' = Fatal("No application project found in angular.json")
                  /\ result' = result
             ELSE /\ pc' = "done"
                  /\ result' = [result EXCEPT !.project = r.name]
                  /\ UNCHANGED <<exitCode, out>>
    /\ UNCHANGED <<prog, errors, idx, wildcardCount, parsed, args, fsys, dir,
                   startTree, runs, Others, appRoutes, wsRoot, appRootExists, featuresDirExists,
                   features, featureFiles, appFiles>>

WsNext == FindStep \/ ReadManifest \/ ChooseProject

(***************************************************************************)
(* generate-feature.mjs (src/unnamed/part_002, lines 171-411)              *)
(*                                                                         *)
(* The generator writes six files into features/<kebab>/ and, with         *)
(* --register, one element into the array of app.routes.ts.  The array is  *)
(* written as the repository writes it: every element starts a line of its *)
(* own with '  {', and `path: '<p>'` stands only in elements.              *)
(***************************************************************************)
RawNames == {"a", "c", "Features", "UserProfile"}

\* trim, '-' between a lower-case letter or digit and an upper-case letter,
\* runs of blanks and '_' to '-', lower case: tabulated for RawNames
toKebab(input) ==
    CASE input = "UserProfile" -> "user-profile"
      [] input = "Features"    -> "features"
      [] OTHER                 -> input

\* toKebab(input).toUpperCase() with '-' replaced by '_'
toConst(input) ==
    CASE input = "UserProfile" -> "USER_PROFILE"
      [] input = "Features"    -> "FEATURES"
      [] input = "a"           -> "A"
      [] OTHER                 -> "C"

\* "none": no --route on the command line (routePath is null)
RouteArgs == {"none", "r", "", "**"}

\* the files main writes, in order; "readme" is README.md, the others
\* <kebab>.<kind>.ts
GenTargets == <<"routes", "page", "data", "state", "models", "readme">>

AllKinds == {"routes", "page", "data", "state", "models", "readme"}

Stem(f, kind) == f \o "." \o kind

\* the import declarations of each template, in source order
TemplateImports(f, kind) ==
    CASE kind = "routes" -> << <<"@angular", "router">>,
                               <<".", Stem(f, "state")>>,
                               <<".", Stem(f, "data")>> >>
      [] kind = "page"   -> << <<"@angular", "core">>,
                               <<"@angular", "common">>,
                               <<".", Stem(f, "state")>> >>
      [] kind = "data"   -> << <<"@angular", "core">>, <<"rxjs">>, <<"rxjs">>,
                               <<".", Stem(f, "models")>> >>
      [] kind = "state"  -> << <<"@angular", "core">>, <<"rxjs">>,
                               <<".", Stem(f, "data")>> >>
      [] OTHER           -> <<>>

\* features/<f>/<f>.<kind>.ts as the cross-feature checker lists it
GenFile(f, kind) ==
    [dir |-> <<f>>, name |-> Stem(f, kind) \o ".ts",
     imports |-> TemplateImports(f, kind)]

\* tpl.routes: export const <CONST>_ROUTES = [ { path: '', providers: [...],
\* loadComponent: () => import('./<f>.page') ... } ]
GenExport(f, const) ==
    <<[name |-> const \o "_ROUTES",
       elements |-> <<FeatObj(FALSE, "", "nonempty",
                              Import(Arg(<<".">>, f, "page")), Absent)>>]>>

\* the element addRouteToAppRoutes inserts
GenRoute(routePath, f) ==
    RouteObj(FALSE, routePath, FALSE, FALSE, Absent,
             Import(Arg(<<".", "features", f>>, f, "routes")))

InsertAt(s, i, e) == SubSeq(s, 1, i - 1) \o <<e>> \o SubSeq(s, i, Len(s))

\* Mutation: the new element always goes to the end of the array.
addRouteToAppRoutes_AtEnd(ar, routePath, f) ==
    LET els == ar.elements
    IN  IF ~ar.exists THEN [died |-> TRUE, file |-> ar]
        ELSE IF \E k \in DOMAIN els : els[k].isObj /\ els[k].path = routePath
          THEN [died |-> FALSE, file |-> ar]
        ELSE IF ~ar.hasRoutes THEN [died |-> TRUE, file |-> ar]
        ELSE [died |-> FALSE,
              file |-> [ar EXCEPT !.elements = Append(els, GenRoute(routePath, f))]]

\* Mutation: the file is not searched for the path before the insertion.
addRouteToAppRoutes_NoSkip(ar, routePath, f) ==
    LET els == ar.elements
        wild == {k \in DOMAIN els : els[k].isObj /\ els[k].path = "**"}
    IN  IF ~ar.exists THEN [died |-> TRUE, file |-> ar]
        ELSE IF wild # {}
          THEN [died |-> FALSE,
                file |-> [ar EXCEPT !.elements =
                            InsertAt(els, CHOOSE k \in wild : \A j \in wild : k <= j,
                                     GenRoute(routePath, f))]]
        ELSE IF ~ar.hasRoutes THEN [died |-> TRUE, file |-> ar]
        ELSE [died |-> FALSE,
              file |-> [ar EXCEPT !.elements = Append(els, GenRoute(routePath, f))]]

\* The file after addRouteToAppRoutes, or died when it ends in die().
addRouteToAppRoutes(ar, routePath, f) ==
    LET els == ar.elements
        wild == {k \in DOMAIN els : els[k].isObj /\ els[k].path = "**"}
    IN  IF ~ar.exists THEN [died |-> TRUE, file |-> ar]
        ELSE IF \E k \in DOMAIN els : els[k].isObj /\ els[k].path = routePath
          THEN [died |-> FALSE, file |-> ar]
        ELSE IF wild # {}
          THEN [died |-> FALSE,
                file |-> [ar EXCEPT !.elements =
                            InsertAt(els, CHOOSE k \in wild : \A j \in wild : k <= j,
                                     GenRoute(routePath, f))]]
        ELSE IF ~ar.hasRoutes THEN [died |-> TRUE, file |-> ar]
        ELSE [died |-> FALSE,
              file |-> [ar EXCEPT !.elements = Append(els, GenRoute(routePath, f))]]

\* const route = routePath ?? featureKebab
routeOf(a, f) == IF a.route = "none" THEN f ELSE a.route

\* Mutation: --route alone registers the route.
registration_RouteImpliesRegister(ar, a, f) ==
    IF a.register \/ a.route # "none"
      THEN addRouteToAppRoutes(ar, routeOf(a, f), f)
      ELSE [died |-> FALSE, file |-> ar]

\* lines 402-408: app.routes.ts is touched only under --register
registration(ar, a, f) ==
    IF a.register
      THEN addRouteToAppRoutes(ar, routeOf(a, f), f)
      ELSE [died |-> FALSE, file |-> ar]

FeatureIndex(fs, f) == CHOOSE i \in DOMAIN fs : fs[i].name = f

HasFeature(fs, f) == \E i \in DOMAIN fs : fs[i].name = f

\* fs.writeFileSync on a file of the listing: replaced in place, or new
PutFile(files, file) ==
    IF \E i \in DOMAIN files : files[i].dir = file.dir /\ files[i].name = file.name
      THEN [i \in DOMAIN files |->
               IF files[i].dir = file.dir /\ files[i].name = file.name
                 THEN file ELSE files[i]]
      ELSE Append(files, file)

\* The trees a run starts from.
Redirect == RouteObj(FALSE, "", TRUE, TRUE, Absent, Absent)
Wild == RouteObj(FALSE, "**", FALSE, FALSE, Import(NotFoundArg), Absent)

GenAppTables ==
    { <<Redirect, GenRoute("a", "a"), Wild>>,
      <<GenRoute("a", "a"), Wild>>,
      <<Wild>>,
      <<Wild, GenRoute("a", "a")>>,
      <<GenRoute("a", "a")>>,
      <<GenRoute("r", "a"), Wild>> }

\* The files of features/a/ before the run: as the generator wrote them, or
\* edited since (the data file no longer imports the models, the routes file
\* has a second route).
GenStartFiles(kinds, extra, edited) ==
    LET ts == FilterSeq(GenTargets, kinds \ {"readme"})
    IN  [k \in DOMAIN ts |->
            IF edited /\ ts[k] = "data"
              THEN [GenFile("a", "data") EXCEPT !.imports = SubSeq(@, 1, 3)]
              ELSE GenFile("a", ts[k])]
        \o (IF extra
              THEN <<[dir |-> <<"a">>, name |-> "f1.ts",
                      imports |-> << <<"..", "b", "x">> >>]>>
              ELSE <<>>)

StartExport(kinds, edited) ==
    IF "routes" \notin kinds THEN <<>>
    ELSE IF edited
      THEN <<[name |-> "A_ROUTES",
              elements |-> <<TemplateRoute,
                             FeatObj(FALSE, "x", "absent", Import(PageArg), Absent)>>]>>
    ELSE GenExport("a", toConst("a"))

\* the command lines of a further run: a registration
RerunArgs == [name : {"a", "c"}, route : RouteArgs, register : {TRUE},
              overwrite : BOOLEAN]

GenInit ==
    /\ prog = "generate-feature"
    /\ runs = 1
    /\ pc = "start"
    /\ errors = <<>>
    /\ exitCode = -1
    /\ idx = 1
    /\ wildcardCount = 0
    /\ parsed = 0
    /\ out = NoOutput
    /\ fsys = NoFsys
    /\ dir = 0
    /\ result = NoResult
    /\ NoPbv
    /\ NoTheme
    /\ args \in [name : RawNames, route : RouteArgs,
                 register : BOOLEAN, overwrite : BOOLEAN]
    /\ wsRoot = <<"ws">>
    /\ appRootExists = TRUE
    /\ appFiles = <<>>
    /\ appRoutes \in
          {[exists |-> TRUE, hasRoutes |-> TRUE, elements |-> t,
            staticPageImport |-> FALSE] : t \in GenAppTables}
          \cup {[DefaultAppRoutes EXCEPT !.exists = FALSE, !.hasRoutes = FALSE]}
    /\ \/ /\ featuresDirExists = FALSE
          /\ features = <<>>
          /\ featureFiles = <<>>
       \/ /\ featuresDirExists = TRUE
          /\ \E kinds \in {AllKinds, AllKinds \ {"state"}, AllKinds \ {"routes"}},
                extra \in BOOLEAN, edited \in BOOLEAN :
               /\ features = <<[name |-> "a", files |-> kinds,
                                exported |-> StartExport(kinds, edited)]>>
               /\ featureFiles = GenStartFiles(kinds, extra, edited)

CurrentTree ==
    [appRoutes |-> appRoutes, appRootExists |-> appRootExists,
     featuresDirExists |-> featuresDirExists, features |-> features,
     featureFiles |-> featureFiles, appFiles |-> appFiles]

featureKebab == toKebab(args.name)

\* Mutation: the file is written whether or not it exists.
writeFileSafe_Always(exists, overwrite) == "written"

\* lines 205-210
writeFileSafe(exists, overwrite) == IF exists /\ ~overwrite THEN "died" ELSE "written"

\* lines 373-389: the names are derived, the two directories are ensured
GenStart ==
    /\ prog = "generate-feature"
    /\ pc = "start"
    /\ featuresDirExists' = TRUE
    /\ features' = IF HasFeature(features, featureKebab) THEN features
                   ELSE Append(features, [name |-> featureKebab, files |-> {},
                                          exported |-> <<>>])
    /\ pc' = "write"
    /\ idx' = 1
    /\ UNCHANGED <<prog, errors, exitCode, wildcardCount, parsed, out, args, fsys,
                   dir, result, startTree, runs, Others, appRoutes, wsRoot, appRootExists,
                   featureFiles, appFiles>>

\* lines 393-398 with writeFileSafe: one target file
GenWriteFile ==
    /\ prog = "generate-feature"
    /\ pc = "write"
    /\ idx <= Len(GenTargets)
    /\ LET kind == GenTargets[idx]
           i == FeatureIndex(features, featureKebab)
       IN  IF writeFileSafe(kind \in features[i].files, args.overwrite) = "died"
             THEN /\ pc' = "died"
                  /\ exitCode' = 1
                  /\ out' = Fatal("Refusing to overwrite existing file")
                  /\ UNCHANGED <<features, featureFiles, idx>>
             ELSE /\ features' =
                       [features EXCEPT
                          ![i].files = @ \cup {kind},
                          ![i].exported = IF kind = "routes"
                                            THEN GenExport(featureKebab, toConst(args.name))
                                            ELSE @]
                  /\ featureFiles' = IF kind = "readme" THEN featureFiles
                                     ELSE PutFile(featureFiles, GenFile(featureKebab, kind))
                  /\ idx' = idx + 1
                  /\ UNCHANGED <<pc, exitCode, out>>
    /\ UNCHANGED <<prog, errors, wildcardCount, parsed, args, fsys, dir, result,
                   startTree, runs, Others, appRoutes, wsRoot, appRootExists, featuresDirExists,
                   appFiles>>

\* lines 400-408: the registration, then main returns
GenRegister ==
    /\ prog = "generate-feature"
    /\ pc = "write"
    /\ idx > Len(GenTargets)
    /\ LET r == registration(appRoutes, args, featureKebab)
       IN  IF r.died
             THEN /\ pc' = "died"
                  /\ exitCode' = 1
                  /\ out' = Fatal("Cannot update app.routes.ts")
                  /\ appRoutes' = appRoutes
             ELSE /\ pc' = "done"
                  /\ exitCode' = 0
                  /\ out' = [stream |-> "stdout", count |-> 0,
                             lines |-> <<[created |-> featureKebab]>>]
                  /\ appRoutes' = r.file
    /\ UNCHANGED <<prog, errors, idx, wildcardCount, parsed, args, fsys, dir, result,
                   startTree, runs, Others, wsRoot, appRootExists, featuresDirExists, features,
                   featureFiles, appFiles>>

\* After a run that ended normally the generator is started again, on the
\* tree that run left.
GenAgain ==
    /\ prog = "generate-feature"
    /\ pc = "done"
    /\ runs < MaxRuns
    /\ runs' = runs + 1
    /\ args' \in RerunArgs
    /\ pc' = "start"
    /\ exitCode' = -1
    /\ out' = NoOutput
    /\ idx' = 1
    /\ startTree' = CurrentTree
    /\ UNCHANGED <<prog, errors, wildcardCount, parsed, fsys, dir, result, Others,
                   appRoutes, wsRoot, appRootExists, featuresDirExists, features,
                   featureFiles, appFiles>>

GenNext == GenStart \/ GenWriteFile \/ GenRegister \/ GenAgain

(***************************************************************************)
(* post-bootstrap-verify.mjs (src/tools/scripts)                           *)
(*                                                                         *)
(* Each step runs a command in a child process; whether the command exits  *)
(* with status 0 is the environment's choice.  `ran` records the steps     *)
(* executed with their outcome; `git` records what initializeGit did.      *)
(***************************************************************************)
\* lines 31-87
steps ==
    << [name |-> "Format",             critical |-> TRUE],
       [name |-> "ESLint Auto-fix",    critical |-> TRUE],
       [name |-> "Format Again",       critical |-> TRUE],
       [name |-> "Build",              critical |-> TRUE],
       [name |-> "Type Check",         critical |-> TRUE],
       [name |-> "Linting",            critical |-> TRUE],
       [name |-> "Format Check",       critical |-> TRUE],
       [name |-> "Unit Tests",         critical |-> FALSE],
       [name |-> "Verification Gates", critical |-> FALSE] >>

\* lines 113-134: what runStep returns and what it adds to the two counters
\* when execSync of the step's command succeeds (ok) or throws
runStep(step, ok) ==
    IF ok THEN [returns |-> TRUE, failed |-> 0, warnings |-> 0]
    ELSE IF step.critical THEN [returns |-> FALSE, failed |-> 1, warnings |-> 0]
    ELSE [returns |-> TRUE, failed |-> 0, warnings |-> 1]

\* Mutation: the loop of main never breaks.
breaks_Never(step, returned) == FALSE

\* lines 243-248: the loop of main breaks
breaks(step, returned) == ~returned /\ step.critical

\* lines 140-186: dotGit is existsSync('.git'), initOk the success of `git
\* init` and the two `git config`, clean that of the two `git diff --quiet`,
\* commitOk that of `git add` and `git commit`
initializeGit(dotGit, initOk, clean, commitOk) ==
    [attempted |-> TRUE,
     initialized |-> ~dotGit /\ initOk,
     committed |-> ~clean /\ commitOk,
     returned |-> clean \/ commitOk]

\* Mutation: a warning spoils the success.
printSummary_WarningsFail(f, w) ==
    IF f = 0 /\ w = 0
      THEN [success |-> TRUE, line |-> "Project is ready for development", count |-> w]
      ELSE [success |-> FALSE, line |-> "critical check(s) failed", count |-> f]

\* lines 192-225
printSummary(f, w) ==
    IF f = 0
      THEN [success |-> TRUE, line |-> "Project is ready for development", count |-> w]
      ELSE [success |-> FALSE, line |-> "critical check(s) failed", count |-> f]

PbvInit ==
    /\ prog = "post-bootstrap-verify"
    /\ runs = 0
    /\ pc = "steps"
    /\ errors = <<>>
    /\ exitCode = -1
    /\ idx = 1
    /\ wildcardCount = 0
    /\ parsed = 0
    /\ out = NoOutput
    /\ args = NoArgs
    /\ fsys = NoFsys
    /\ dir = 0
    /\ result = NoResult
    /\ NoPbv
    /\ NoTheme
    /\ wsRoot = <<"ws">>
    /\ appRootExists = TRUE
    /\ featuresDirExists = TRUE
    /\ appRoutes = DefaultAppRoutes
    /\ features = <<>>
    /\ featureFiles = <<>>
    /\ appFiles = <<>>

ThemeVars == <<schemeSignal, themeSource, localStorage, htmlDark, prefersDark,
               effectPending, darkLog>>

PbvFrame == <<prog, errors, wildcardCount, parsed, args, fsys, dir, result,
              startTree, runs, appRoutes, wsRoot, appRootExists, featuresDirExists,
              features, featureFiles, appFiles, ThemeVars>>

\* lines 242-249: one iteration of `for (const step of steps)`
PbvRunStep ==
    /\ prog = "post-bootstrap-verify"
    /\ pc = "steps"
    /\ idx <= Len(steps)
    /\ \E ok \in BOOLEAN :
         LET step == steps[idx]
             r == runStep(step, ok)
         IN  /\ failed' = failed + r.failed
             /\ warnings' = warnings + r.warnings
             /\ ran' = Append(ran, [name |-> step.name, at |-> idx, ok |-> ok])
             /\ IF breaks(step, r.returns)
                  THEN /\ continueVerification' = FALSE
                       /\ idx' = idx
                       /\ pc' = "git"
                  ELSE /\ continueVerification' = continueVerification
                       /\ idx' = idx + 1
                       /\ pc' = IF idx = Len(steps) THEN "git" ELSE "steps"
    /\ UNCHANGED <<exitCode, out, git, PbvFrame>>

\* lines 251-253
PbvGit ==
    /\ prog = "post-bootstrap-verify"
    /\ pc = "git"
    /\ IF continueVerification /\ failed = 0
         THEN \E dotGit, initOk, clean, commitOk \in BOOLEAN :
                /\ (~dotGit /\ ~initOk) => (~clean /\ ~commitOk)
                /\ git' = initializeGit(dotGit, initOk, clean, commitOk)
         ELSE git' = git
    /\ pc' = "summary"
    /\ UNCHANGED <<exitCode, out, idx, failed, warnings, continueVerification, ran,
                   PbvFrame>>

\* lines 255-257
PbvSummary ==
    /\ prog = "post-bootstrap-verify"
    /\ pc = "summary"
    /\ LET s == printSummary(failed, warnings)
       IN  /\ exitCode' = IF s.success THEN 0 ELSE 1
           /\ out' = [stream |-> "stdout", count |-> s.count,
                      lines |-> <<[summary |-> s.line]>>]
    /\ pc' = "done"
    /\ UNCHANGED <<idx, failed, warnings, continueVerification, ran, git, PbvFrame>>

PbvNext == PbvRunStep \/ PbvGit \/ PbvSummary

(***************************************************************************)
(* ThemeService (src/src/app/shared/services/theme.service.ts)             *)
(*                                                                         *)
(* localStorage is "undefined" where there is no such global, "absent"     *)
(* when no item is stored under STORAGE_KEY, else the stored string.       *)
(* darkLog holds the value of isDark() after construction and after each   *)
(* toggle() since the last call of set() or change of the system           *)
(* preference.                                                             *)
(***************************************************************************)
MaxToggles == 3     \* consecutive calls of toggle()

ColorScheme == {"light", "dark", "auto"}

StoredItems == {"undefined", "absent", "light", "dark", "auto", "blue"}

\* lines 93-105
loadScheme(stored) ==
    IF stored \in ColorScheme
      THEN [scheme |-> stored, themeSource |-> "localStorage"]
      ELSE [scheme |-> "auto", themeSource |-> "browser-preference"]

\* lines 82-88
isDark(scheme, prefers) == IF scheme = "auto" THEN prefers ELSE scheme = "dark"

\* lines 44-60: whether <html> has the class 'dark' afterwards
applyTheme(scheme, prefers) ==
    IF scheme = "dark" THEN TRUE
    ELSE IF scheme = "light" THEN FALSE
    ELSE prefers

\* Mutation: toggle looks at the scheme alone.
toggle_FromScheme(scheme, prefers) == IF scheme = "dark" THEN "light" ELSE "dark"

\* lines 74-77: the scheme toggle() sets
toggle(scheme, prefers) == IF isDark(scheme, prefers) THEN "light" ELSE "dark"

\* The service as its constructor leaves it.
ThemeInit ==
    /\ prog = "ThemeService"
    /\ runs = 0
    /\ pc = "ready"
    /\ errors = <<>>
    /\ exitCode = -1
    /\ idx = 1
    /\ wildcardCount = 0
    /\ parsed = 0
    /\ out = NoOutput
    /\ args = NoArgs
    /\ fsys = NoFsys
    /\ dir = 0
    /\ result = NoResult
    /\ NoPbv
    /\ wsRoot = <<"ws">>
    /\ appRootExists = TRUE
    /\ featuresDirExists = TRUE
    /\ appRoutes = DefaultAppRoutes
    /\ features = <<>>
    /\ featureFiles = <<>>
    /\ appFiles = <<>>
    /\ localStorage \in StoredItems
    /\ prefersDark \in BOOLEAN
    /\ schemeSignal = loadScheme(localStorage).scheme
    /\ themeSource = loadScheme(localStorage).themeSource
    /\ htmlDark = applyTheme(schemeSignal, prefersDark)
    /\ effectPending = TRUE
    /\ darkLog = <<isDark(schemeSignal, prefersDark)>>

ThemeFrame == <<prog, pc, errors, exitCode, idx, wildcardCount, parsed, out, args,
                fsys, dir, result, startTree, runs, appRoutes, wsRoot, appRootExists,
                featuresDirExists, features, featureFiles, appFiles, failed,
                warnings, continueVerification, ran, git, themeSource>>

\* lines 74-77
ThemeToggle ==
    /\ prog = "ThemeService"
    /\ Len(darkLog) <= MaxToggles
    /\ schemeSignal' = toggle(schemeSignal, prefersDark)
    /\ effectPending' = (effectPending \/ schemeSignal' # schemeSignal)
    /\ darkLog' = Append(darkLog, isDark(schemeSignal', prefersDark))
    /\ UNCHANGED <<localStorage, htmlDark, prefersDark, ThemeFrame>>

\* lines 66-68
ThemeSet ==
    /\ prog = "ThemeService"
    /\ \E scheme \in ColorScheme :
         /\ schemeSignal' = scheme
         /\ effectPending' = (effectPending \/ scheme # schemeSignal)
         /\ darkLog' = <<isDark(scheme, prefersDark)>>
    /\ UNCHANGED <<localStorage, htmlDark, prefersDark, ThemeFrame>>

\* lines 33-37 with saveScheme (lines 117-124): the effect runs; setItem may
\* throw, which is caught
ThemeEffect ==
    /\ prog = "ThemeService"
    /\ effectPending
    /\ effectPending' = FALSE
    /\ htmlDark' = applyTheme(schemeSignal, prefersDark)
    /\ \E saved \in BOOLEAN :
         localStorage' = IF localStorage = "undefined" \/ ~saved
                           THEN localStorage ELSE schemeSignal
    /\ UNCHANGED <<schemeSignal, prefersDark, darkLog, ThemeFrame>>

\* the user changes the preference of the system
SystemPreferenceChange ==
    /\ prog = "ThemeService"
    /\ prefersDark' = ~prefersDark
    /\ darkLog' = <<isDark(schemeSignal, prefersDark')>>
    /\ UNCHANGED <<schemeSignal, localStorage, htmlDark, effectPending, ThemeFrame>>

ThemeNext == ThemeToggle \/ ThemeSet \/ ThemeEffect \/ SystemPreferenceChange

(***************************************************************************)
(* A whole run of each checker over a tree t, as the list of violations    *)
(* its loops push in order; `fatal` when the run ends in die().            *)
(***************************************************************************)
RECURSIVE AppWalkErrors(_, _)
AppWalkErrors(els, k) ==
    IF k > Len(els) THEN <<>>
    ELSE AppElementErrors(els[k]) \o AppWalkErrors(els, k + 1)

RunAppRoutes(t) ==
    IF ~t.appRoutes.exists \/ ~t.appRoutes.hasRoutes
      THEN [fatal |-> TRUE, errors |-> <<>>]
      ELSE LET els == t.appRoutes.elements
               n == Cardinality({k \in DOMAIN els : AppElementIsWildcard(els[k])})
           IN  [fatal |-> FALSE,
                errors |-> AppWalkErrors(els, 1)
                           \o (IF n # 1 THEN <<WildcardError(n)>> ELSE <<>>)]

RECURSIVE CrossWalkErrors(_, _)
CrossWalkErrors(files, k) ==
    IF k > Len(files) THEN <<>>
    ELSE CrossFileErrors(files[k]) \o CrossWalkErrors(files, k + 1)

RunCrossFeature(t) ==
    [fatal |-> FALSE,
     errors |-> IF ~t.featuresDirExists THEN <<>>
                ELSE CrossWalkErrors(t.featureFiles, 1)]

RECURSIVE FeatWalkErrors(_, _)
FeatWalkErrors(fs, k) ==
    IF k > Len(fs) THEN <<>>
    ELSE (IF "routes" \notin fs[k].files
            THEN <<[msg |-> "Missing feature routes file", file |-> fs[k].name]>>
            ELSE validateFeatureRoutesFile(fs[k]))
         \o FeatWalkErrors(fs, k + 1)

RunFeatureRoutes(t) ==
    [fatal |-> FALSE,
     errors |-> FeatWalkErrors(listDirs(t.featuresDirExists, t.features), 1)]

RECURSIVE FolderWalkErrors(_, _)
FolderWalkErrors(fs, k) ==
    IF k > Len(fs) THEN <<>>
    ELSE FolderErrors(fs[k]) \o FolderWalkErrors(fs, k + 1)

RECURSIVE ProvidersWalkErrors(_, _)
ProvidersWalkErrors(fs, k) ==
    IF k > Len(fs) THEN <<>>
    ELSE verifyFeatureRouteProviders(fs[k]) \o ProvidersWalkErrors(fs, k + 1)

RunStructure(t) ==
    LET names == listDirs(t.featuresDirExists, t.features)
    IN  [fatal |-> FALSE,
         errors |->
            StartErrors(t.appRootExists, t.featuresDirExists, names)
            \o FolderWalkErrors(names, 1)
            \o (IF ~t.appRoutes.exists THEN <<Err("Missing app.routes.ts")>>
                ELSE IF t.appRoutes.staticPageImport
                  THEN <<Err("app.routes.ts must not statically import pages")>>
                ELSE <<>>)
            \o (IF t.appRootExists
                  THEN verifyNoHttpClientInDisallowedFiles(t.appFiles, 1)
                       \o verifyNoProvidedInRootInFeatures(t.appFiles, 1)
                       \o ProvidersWalkErrors(names, 1)
                  ELSE <<>>)]

Clean(r) == ~r.fatal /\ r.errors = <<>>

\* The tree passes the four checkers.
TreePasses(t) ==
    /\ Clean(RunStructure(t))
    /\ Clean(RunAppRoutes(t))
    /\ Clean(RunFeatureRoutes(t))
    /\ Clean(RunCrossFeature(t))

(***************************************************************************)
(* One run of one script over one tree.                                    *)
(***************************************************************************)
Init ==
    /\ AppInit \/ CrossInit \/ FeatInit \/ StructInit \/ GenInit \/ WsInit \/ PbvInit
       \/ ThemeInit
    /\ startTree = CurrentTree

Next == AppNext \/ CrossNext \/ FeatNext \/ StructNext \/ GenNext \/ WsNext
        \/ PbvNext \/ ThemeNext

Spec == Init /\ [][Next]_vars

(***************************************************************************)
(* Claims about verify-app-routes.                                         *)
(***************************************************************************)
AppWalked == prog = "verify-app-routes" /\ pc \in {"report", "done"}

\* The number of elements of the exported array that are object literals with
\* the literal path '**', read off the input.
NumWildcardEntries ==
    Cardinality({k \in DOMAIN appRoutes.elements :
                    /\ appRoutes.elements[k].isObj
                    /\ appRoutes.elements[k].path = "**"})

CardinalityErrors ==
    {k \in DOMAIN errors : errors[k].msg = "exactly one wildcard"}

\* C1: once the walk of the exported routes array is over, the 'exactly one
\* wildcard' violation is reported if and only if the number of route objects
\* with literal path '**' differs from 1; it is reported once and its message
\* carries that number; with exactly one wildcard it is not reported.
C1_WildcardCardinality ==
    AppWalked =>
        /\ (NumWildcardEntries # 1 =>
               /\ Cardinality(CardinalityErrors) = 1
               /\ \A k \in CardinalityErrors : errors[k].found = NumWildcardEntries)
        /\ (NumWildcardEntries = 1 => CardinalityErrors = {})

\* C1 witness: a finished run over a table with two wildcard entries, one of
\* them with a wrong loader, that reported the count 2.
C1_Witness ==
    /\ prog = "verify-app-routes"
    /\ pc = "done"
    /\ NumWildcardEntries = 2
    /\ \E k \in DOMAIN appRoutes.elements :
          /\ appRoutes.elements[k].path = "**"
          /\ ~loadComponentLooksLikeNotFound(appRoutes.elements[k].loadComponent)
    /\ \E k \in DOMAIN errors : errors[k] = WildcardError(2)
    /\ exitCode = 1

(***************************************************************************)
(* Claims about verify-no-cross-feature-imports.                           *)
(*                                                                         *)
(* The owning feature of a path is read off the tree: the segment that     *)
(* follows the features directory, for a path below that directory.        *)
(***************************************************************************)
UnderFeaturesRoot(p) ==
    /\ Len(p) > Len(featuresDir)
    /\ SubSeq(p, 1, Len(featuresDir)) = featuresDir

OwnerOf(p) == IF UnderFeaturesRoot(p) THEN p[Len(featuresDir) + 1] ELSE ""

Target(f, spec) == Normalize(AbsDir(f), spec)

CrossRun == prog = "verify-no-cross-feature-imports"

\* The violations pushed for the import `spec` of file f.
ErrorsFor(f, spec) ==
    {k \in DOMAIN errors :
        /\ errors[k].msg = "cross-feature import"
        /\ errors[k].file = f.dir \o <<f.name>>
        /\ errors[k].spec = spec}

Occurrences(f, spec) == {j \in DOMAIN f.imports : f.imports[j] = spec}

\* C2: when the run is over, every relative import of a file owned by feature
\* A that resolves to a path owned by another feature B has exactly one
\* violation, which names A, B and the specifier, and the run exits 1.
C2_CrossFeatureDetected ==
    (CrossRun /\ pc = "done") =>
        \A k \in DOMAIN featureFiles :
          \A j \in DOMAIN featureFiles[k].imports :
            LET f == featureFiles[k]
                spec == f.imports[j]
                A == OwnerOf(AbsFile(f))
                B == OwnerOf(Target(f, spec))
            IN  (StartsWithDot(spec) /\ B # "" /\ B # A) =>
                   /\ Cardinality({e \in ErrorsFor(f, spec) :
                                      errors[e].from = A /\ errors[e].to = B})
                        = Cardinality(Occurrences(f, spec))
                   /\ exitCode = 1

\* C3: a relative import whose file and target lie under the same immediate
\* subdirectory of the features directory never gets a violation.
C3_SameFeatureNotFlagged ==
    CrossRun =>
        \A k \in DOMAIN featureFiles :
          \A j \in DOMAIN featureFiles[k].imports :
            LET f == featureFiles[k]
                spec == f.imports[j]
            IN  (/\ StartsWithDot(spec)
                 /\ OwnerOf(Target(f, spec)) # ""
                 /\ OwnerOf(Target(f, spec)) = OwnerOf(AbsFile(f)))
                => ErrorsFor(f, spec) = {}

\* C4: a relative import that resolves outside the features directory never
\* gets a violation, wherever the workspace lies.
C4_OutsideTargetsNotFlagged ==
    CrossRun =>
        \A k \in DOMAIN featureFiles :
          \A j \in DOMAIN featureFiles[k].imports :
            LET f == featureFiles[k]
                spec == f.imports[j]
            IN  (StartsWithDot(spec) /\ ~UnderFeaturesRoot(Target(f, spec)))
                => ErrorsFor(f, spec) = {}

\* C5: an import whose specifier does not start with '.' never gets a
\* violation, whatever the specifier holds.
C5_NonRelativeNotFlagged ==
    CrossRun =>
        \A k \in DOMAIN featureFiles :
          \A j \in DOMAIN featureFiles[k].imports :
            LET f == featureFiles[k]
                spec == f.imports[j]
            IN  (spec = <<>> \/ spec[1] \notin {".", ".."}) => ErrorsFor(f, spec) = {}

\* C5 witness: a finished, clean run over a file of feature a whose only
\* import is the non-relative specifier 'features/b/x'.
C5_Witness ==
    /\ CrossRun
    /\ pc = "done"
    /\ Len(featureFiles) = 1
    /\ featureFiles[1].dir = <<"a">>
    /\ featureFiles[1].imports = << <<"features", "b", "x">> >>
    /\ errors = <<>>
    /\ exitCode = 0

(***************************************************************************)
(* Claims about the provider requirement.                                  *)
(***************************************************************************)
ProviderErrors(fname, exname) ==
    {k \in DOMAIN errors :
        /\ errors[k].msg = "first route must declare providers"
        /\ errors[k].file = fname
        /\ errors[k].export = exname}

\* The exported arrays (feature k, array a) whose first element is a route
\* object.
ArraysWithRouteFirst ==
    {ka \in {<<k, a>> : k \in DOMAIN features, a \in 1..Len(ExportNames)} :
        /\ "routes" \in features[ka[1]].files
        /\ ka[2] \in DOMAIN features[ka[1]].exported
        /\ features[ka[1]].exported[ka[2]].elements # <<>>
        /\ features[ka[1]].exported[ka[2]].elements[1].isObj}

FirstOf(ka) == features[ka[1]].exported[ka[2]].elements[1]

\* C6: when verify-feature-routes or verify-structure is over, every exported
\* array of a feature's routes file whose first element is a route object
\* without `providers` has a providers violation and the run failed, whatever
\* the later elements declare.
C6_FirstElementNeedsProviders ==
    (prog \in {"verify-feature-routes", "verify-structure"} /\ pc = "done") =>
        \A ka \in ArraysWithRouteFirst :
            FirstOf(ka).providers = "absent" =>
               /\ ProviderErrors(features[ka[1]].name,
                                 features[ka[1]].exported[ka[2]].name) # {}
               /\ exitCode = 1

\* C6 witness: a finished run over an array whose first element has no
\* providers while its second element declares them.
C6_Witness ==
    /\ prog = "verify-structure"
    /\ pc = "done"
    /\ \E ka \in ArraysWithRouteFirst :
          LET els == features[ka[1]].exported[ka[2]].elements
          IN  /\ els[1].providers = "absent"
              /\ Len(els) >= 2
              /\ els[2].isObj
              /\ els[2].providers = "nonempty"
              /\ ProviderErrors(features[ka[1]].name,
                                features[ka[1]].exported[ka[2]].name) # {}

\* C7 as stated: when verify-feature-routes is over, an array whose first
\* element declares `providers` with an empty list has a providers violation.
C7_EmptyProvidersFlagged ==
    (prog = "verify-feature-routes" /\ pc = "done") =>
        \A ka \in ArraysWithRouteFirst :
            FirstOf(ka).providers = "empty" =>
               ProviderErrors(features[ka[1]].name,
                              features[ka[1]].exported[ka[2]].name) # {}

\* C7 amended: when verify-feature-routes is over, an array whose first
\* element is a route object has a providers violation if and only if that
\* element has no `providers` property; an empty list is accepted.
C7_ProvidersPresenceOnly ==
    (prog = "verify-feature-routes" /\ pc = "done") =>
        \A ka \in ArraysWithRouteFirst :
            (ProviderErrors(features[ka[1]].name,
                            features[ka[1]].exported[ka[2]].name) # {})
            <=> (FirstOf(ka).providers = "absent")

\* C7 witness: a finished run that passed a routes file whose first route
\* declares an empty providers list.
C7_Witness ==
    /\ prog = "verify-feature-routes"
    /\ pc = "done"
    /\ \E ka \in ArraysWithRouteFirst : FirstOf(ka).providers = "empty"
    /\ errors = <<>>
    /\ exitCode = 0

(***************************************************************************)
(* Claims about verify-structure.                                          *)
(***************************************************************************)
StructDone == prog = "verify-structure" /\ pc = "done"

MissingOf(k) == RequiredKinds \ features[k].files

RECURSIVE SumMissing(_)
SumMissing(k) == IF k = 0 THEN 0 ELSE Cardinality(MissingOf(k)) + SumMissing(k - 1)

MissingFileErrors == {e \in DOMAIN errors : errors[e].msg = "missing required files"}

\* C8 as stated: when the run is over there are as many missing-file
\* violations as required files are missing in the tree.
C8_OneViolationPerMissingFile ==
    StructDone => Cardinality(MissingFileErrors) = SumMissing(Len(features))

\* C8 amended: when the run is over, every feature that lacks a required file
\* has exactly one missing-file violation, which lists each of its missing
\* files once, and a feature that lacks none has no such violation.
C8_OneViolationPerFeature ==
    StructDone =>
        \A k \in DOMAIN features :
            LET mine == {e \in MissingFileErrors : errors[e].feature = features[k].name}
            IN  IF MissingOf(k) = {} THEN mine = {}
                ELSE /\ Cardinality(mine) = 1
                     /\ \A e \in mine :
                          /\ {errors[e].missing[i] : i \in DOMAIN errors[e].missing}
                               = MissingOf(k)
                          /\ Len(errors[e].missing) = Cardinality(MissingOf(k))

\* C8 witness: a finished run over two features, one lacking two required
\* files and the other one, that reported two missing-file violations.
C8_Witness ==
    /\ StructDone
    /\ Len(features) = 2
    /\ Cardinality(MissingOf(1)) = 2
    /\ Cardinality(MissingOf(2)) = 1
    /\ Cardinality(MissingFileErrors) = 2

AbsentDirCase ==
    /\ StructDone
    /\ ~featuresDirExists
    /\ appRootExists
    /\ appRoutes.exists
    /\ ~appRoutes.staticPageImport

AbsentDirErrors ==
    {e \in DOMAIN errors :
        errors[e].msg \in {"Features dir not found", "No feature folders found"}}

\* C9 as stated: with the app root and a valid app.routes.ts present and no
\* features directory, the finished run failed and its list holds exactly one
\* violation for the absent directory.
C9_AbsentDirSingleViolation ==
    AbsentDirCase => (exitCode = 1 /\ Cardinality(AbsentDirErrors) = 1)

\* C9 amended: in that case the finished run failed and its list holds two
\* violations for the absent directory, 'Features dir not found' and then
\* 'No feature folders found', each once.
C9_AbsentDirTwoViolations ==
    AbsentDirCase =>
        /\ exitCode = 1
        /\ Cardinality(AbsentDirErrors) = 2
        /\ Len(errors) >= 2
        /\ errors[1].msg = "Features dir not found"
        /\ errors[2].msg = "No feature folders found"

\* C9 witness: such a run, finished, whose whole list is the two violations.
C9_Witness ==
    /\ AbsentDirCase
    /\ Len(errors) = 2
    /\ exitCode = 1

(***************************************************************************)
(* Claims about the absent features directory in the other scripts.        *)
(***************************************************************************)
\* C10: without a features directory, verify-feature-routes and
\* verify-no-cross-feature-imports read no feature file, record no violation,
\* never end with a status other than 0, and keep running until they are done.
C10_AbsentDirPassesCleanly ==
    (prog \in {"verify-feature-routes", "verify-no-cross-feature-imports"}
     /\ ~featuresDirExists) =>
        /\ parsed = 0
        /\ errors = <<>>
        /\ exitCode \in {-1, 0}
        /\ (pc = "done" => exitCode = 0)
        /\ (pc # "done" => ENABLED Next)

\* C10 witness: verify-feature-routes, finished with status 0 without a
\* features directory.
C10_Witness ==
    /\ prog = "verify-feature-routes"
    /\ ~featuresDirExists
    /\ pc = "done"
    /\ exitCode = 0

(***************************************************************************)
(* Claims about the end of a checker run.                                  *)
(***************************************************************************)
CheckerProgs == {"verify-app-routes", "verify-no-cross-feature-imports",
                 "verify-feature-routes", "verify-structure"}

Ended == pc \in {"done", "died", "threw"}

FatalEnd == pc \in {"died", "threw"}

\* C11: a checker has an exit status exactly when it has ended; the status is
\* 1 if and only if its violation list is non-empty or the run ended fatally,
\* and 0 otherwise; a failed report lists every accumulated violation after a
\* header whose count is the number of violations listed, and a run with
\* status 0 printed only the affirming line.
C11_ExitStatus ==
    prog \in CheckerProgs =>
        /\ exitCode \in {-1, 0, 1}
        /\ (Ended <=> exitCode # -1)
        /\ Ended =>
             /\ (exitCode = 1 <=> (errors # <<>> \/ FatalEnd))
             /\ (exitCode = 1 /\ ~FatalEnd) =>
                   /\ out.stream = "stderr"
                   /\ out.lines = errors
                   /\ out.count = Len(out.lines)
             /\ exitCode = 0 => (out = OkLine /\ errors = <<>>)

\* C11 witness: a structure run that ended with status 1 after printing its
\* three violations.
C11_Witness ==
    /\ prog = "verify-structure"
    /\ pc = "done"
    /\ Len(errors) = 3
    /\ out.count = 3
    /\ out.lines = errors
    /\ exitCode = 1

(***************************************************************************)
(* Claims about the generator.                                             *)
(***************************************************************************)
GenSucceeded == prog = "generate-feature" /\ pc = "done"

NewName == ~HasFeature(startTree.features, featureKebab)

\* C12: when the generator has ended normally for a feature name that was not
\* in the tree, with --register, from a tree that passed the four checkers,
\* the tree it leaves passes the four checkers.
C12_RoundTrip ==
    (GenSucceeded /\ args.register /\ NewName /\ TreePasses(startTree))
        => TreePasses(CurrentTree)

(***************************************************************************)
(* Claims about the elements of the app route table.                       *)
(***************************************************************************)
Elements == appRoutes.elements

ElementsWhere(P(_)) == {k \in DOMAIN Elements : P(Elements[k])}

ErrorsWith(msgs) == {k \in DOMAIN errors : errors[k].msg \in msgs}

\* the element has a literal path other than '' and '**'
IsFeatureEntry(el) == el.isObj /\ el.path \notin {"none", "", "**"}

\* the deferred-import argument is './features/<x>/<x>.routes'
ImportsOwnFeatureRoutes(init) ==
    /\ init.present
    /\ init.hasImport
    /\ Len(init.arg.dirs) = 3
    /\ init.arg.dirs[1] = "."
    /\ init.arg.dirs[2] = "features"
    /\ init.arg.dirs[3] = init.arg.stem
    /\ init.arg.ext = "routes"

BadFeatureEntry(el) ==
    IsFeatureEntry(el) /\ ~ImportsOwnFeatureRoutes(el.loadChildren)

\* C13: when the walk is over, every element with a literal path other than
\* '' and '**' whose loadChildren is missing or does not import
\* './features/<x>/<x>.routes' (the same <x> twice) has its loader violation,
\* and the other such elements have none.
C13_FeatureLoaderPattern ==
    AppWalked =>
        Cardinality(ErrorsWith({"must use loadChildren",
                                "loadChildren must import feature routes"}))
          = Cardinality(ElementsWhere(BadFeatureEntry))

IsEmptyPathEntry(el) == el.isObj /\ el.path = ""

BadEmptyPathEntry(el) ==
    /\ IsEmptyPathEntry(el)
    /\ \/ ~el.redirectTo
       \/ ~el.pathMatch
       \/ el.loadComponent.present
       \/ el.loadChildren.present

\* C14: when the walk is over, every element with literal path '' that lacks
\* redirectTo or pathMatch, or that carries a loadComponent or a loadChildren,
\* has its 'must be a redirect' violation, and the other such elements have
\* none.
C14_EmptyPathIsPureRedirect ==
    AppWalked =>
        Cardinality(ErrorsWith({"empty path route must be a redirect"}))
          = Cardinality(ElementsWhere(BadEmptyPathEntry))

IsWildcardEntry(el) == el.isObj /\ el.path = "**"

BadWildcardEntry(el) ==
    /\ IsWildcardEntry(el)
    /\ ~(/\ el.loadComponent.present
         /\ el.loadComponent.hasImport
         /\ el.loadComponent.arg = Arg(<<".", "shared", "pages">>, "not-found", "page"))

\* C15: when the walk is over, wildcardCount is the number of elements with
\* literal path '**', whatever their loader, and the wildcard-loader
\* violations are as many as the wildcard elements whose loadComponent is
\* missing or does not import exactly './shared/pages/not-found.page'.
C15_WildcardLoader ==
    AppWalked =>
        /\ wildcardCount = Cardinality(ElementsWhere(IsWildcardEntry))
        /\ Cardinality(ErrorsWith({"wildcard route must loadComponent not-found.page"}))
             = Cardinality(ElementsWhere(BadWildcardEntry))

\* C15 witness: a finished run over a table whose only wildcard imports
\* another page: it is counted, so no cardinality violation, and it has the
\* loader violation.
C15_Witness ==
    /\ prog = "verify-app-routes"
    /\ pc = "done"
    /\ Cardinality(ElementsWhere(IsWildcardEntry)) = 1
    /\ Cardinality(ElementsWhere(BadWildcardEntry)) = 1
    /\ wildcardCount = 1
    /\ CardinalityErrors = {}
    /\ ErrorsWith({"wildcard route must loadComponent not-found.page"}) # {}
    /\ exitCode = 1

HasComponent(el) == el.isObj /\ el.component

\* C16: when the walk is over, the 'must not use component' violations are as
\* many as the route objects with a `component` property, whatever their
\* path, and a finished run over a table with such an element has status 1.
C16_NoComponentBinding ==
    AppWalked =>
        /\ Cardinality(ErrorsWith({"must not use component"}))
             = Cardinality(ElementsWhere(HasComponent))
        /\ (pc = "done" /\ ElementsWhere(HasComponent) # {}) => exitCode = 1

\* C16 witness: a finished run over a table that holds a valid redirect with
\* a `component` property and a valid wildcard, whose only violation is the
\* component one.
C16_Witness ==
    /\ prog = "verify-app-routes"
    /\ pc = "done"
    /\ \E k \in ElementsWhere(HasComponent) :
          Elements[k].path = "" /\ Elements[k].redirectTo /\ Elements[k].pathMatch
    /\ Len(errors) = 1
    /\ errors[1].msg = "must not use component"
    /\ exitCode = 1


(***************************************************************************)
(* Workspace resolution                                                    *)
(***************************************************************************)
WsProg == prog = "getWorkspaceContext"

\* the deepest ancestor-or-self of the start directory that holds a manifest
NearestManifest == CHOOSE d \in fsys.manifests : \A e \in fsys.manifests : e <= d

\* C17: findWorkspaceRoot walks parent by parent and always terminates: while
\* it searches, it stays between the filesystem root and the start directory,
\* it always has a next step, and every step that keeps searching moves to a
\* strictly shallower directory, so at most start+1 steps are taken.  It has
\* passed no directory holding angular.json; the root it returns is the
\* nearest ancestor-or-self that holds one; and when no directory up to the
\* filesystem root holds one, the process ends with exit status 1 after an
\* error on the error stream, without a root ever being returned.
C17_WorkspaceRootTerminates ==
    /\ [](WsProg =>
            /\ dir \in 0..fsys.start
            /\ pc = "find" =>
                 /\ ENABLED FindStep
                 /\ \A d \in fsys.manifests : d <= dir
                 /\ result = NoResult
            /\ pc # "find" =>
                 IF fsys.manifests = {}
                   THEN /\ pc = "died"
                        /\ exitCode = 1
                        /\ out.stream = "stderr"
                        /\ Len(out.lines) = 1
                        /\ result = NoResult
                   ELSE /\ result.root = NearestManifest
                        /\ dir = NearestManifest)
    /\ [][(WsProg /\ pc = "find" /\ pc' = "find") => dir' < dir]_vars

\* a root found one level above the start directory,
\* with a further manifest at the filesystem root that is not the nearest
C17_Witness ==
    /\ WsProg
    /\ fsys.start = 2
    /\ fsys.manifests = {0, 1}
    /\ pc = "done"
    /\ result.root = 1


\* the positions, in the order the manifest writes its projects, of the
\* application projects
ManifestApps == {k \in DOMAIN fsys.projects : fsys.projects[k].projectType = "application"}

DefaultIsApplication ==
    \E k \in ManifestApps : fsys.projects[k].name = fsys.defaultProject

ProjectChosen == WsProg /\ fsys.manifests # {} /\ fsys.parses /\ pc \in {"done", "died"}

\* C18: once the project has been chosen, it is the one named by
\* defaultProject when that project exists and is an application; otherwise
\* it is the first application project in manifest order; the project
\* returned is always an application project; and a manifest without any
\* application project ends the run fatally with exit status 1.
C18_DefaultAppProject ==
    ProjectChosen =>
        IF DefaultIsApplication
          THEN pc = "done" /\ result.project = fsys.defaultProject
        ELSE IF ManifestApps # {}
          THEN /\ pc = "done"
               /\ result.project =
                    fsys.projects[CHOOSE k \in ManifestApps :
                                    \A j \in ManifestApps : k <= j].name
        ELSE pc = "died" /\ exitCode = 1 /\ out.stream = "stderr"


(***************************************************************************)
(* A routes file without any exported array                                *)
(***************************************************************************)
FeatProg == prog = "verify-feature-routes"

\* the features already visited whose routes file exports no array
NoArrayVisited ==
    {k \in DOMAIN features :
        k < idx /\ "routes" \in features[k].files /\ features[k].exported = <<>>}

ErrorsOfFile(name) == {i \in DOMAIN errors : errors[i].file = name}

\* C19 (as stated): once a routes file that exports no array has been
\* visited, the run has been aborted: it ended fatally with a nonzero exit
\* status, and the violation list holds nothing of any other feature.
C19_AbsentArrayAbortsRun ==
    (FeatProg /\ Ended /\ NoArrayVisited # {}) =>
        /\ FatalEnd
        /\ exitCode = 1
        /\ \E k \in NoArrayVisited :
             \A i \in DOMAIN errors : errors[i].file = features[k].name

\* C19 (amended): a routes file that exports no array costs exactly one
\* violation for that file, "must export at least one Routes array", and
\* the walk goes on: the run never ends fatally because of it, every feature
\* is visited, and the run ends with exit status 1 after printing every
\* violation collected, those of the other features included.
C19_AbsentArrayIsOneViolation ==
    FeatProg =>
        /\ \A k \in NoArrayVisited :
             /\ Cardinality(ErrorsOfFile(features[k].name)) = 1
             /\ \A i \in ErrorsOfFile(features[k].name) :
                  errors[i].msg = "must export at least one Routes array"
        /\ (Ended /\ NoArrayVisited # {}) =>
             /\ pc = "done"
             /\ idx = Len(features) + 1
             /\ exitCode = 1
             /\ errors = FeatWalkErrors(features, 1)
             /\ out = [stream |-> "stderr", count |-> Len(errors), lines |-> errors]

\* a run that ended after a file without an array and a second feature with
\* a violation of its own
C19_Witness ==
    /\ FeatProg
    /\ pc = "done"
    /\ Len(features) = 2
    /\ NoArrayVisited = {1}
    /\ ErrorsOfFile(features[2].name) # {}
    /\ Len(errors) >= 2


(***************************************************************************)
(* The file set of docs/VERIFICATION.md, Gate 1                            *)
(***************************************************************************)
\* the features whose folder has been checked and that have the routes,
\* page, data and state files but no <name>.models.ts
LacksOnlyModels ==
    {k \in DOMAIN features :
        /\ RequiredKinds \subseteq features[k].files
        /\ "models" \notin features[k].files}

\* C20: a finished structure verification of a tree in which some feature
\* has its routes, page, data and state files but lacks <name>.models.ts has
\* failed: the exit status is 1 and the missing-files violation of that
\* feature names the models file.
C20_ModelsFileRequired ==
    (prog = "verify-structure" /\ pc = "done") =>
        \A k \in LacksOnlyModels :
            /\ exitCode = 1
            /\ \E i \in DOMAIN errors :
                 /\ errors[i].msg = "missing required files"
                 /\ errors[i].feature = features[k].name


(***************************************************************************)
(* The generator and app.routes.ts                                         *)
(***************************************************************************)
\* the files of the generated feature
GeneratedFiles == features[FeatureIndex(features, featureKebab)].files

\* the table holds the registration of `route` for the generated feature
Registered(ar, route) ==
    \E k \in DOMAIN ar.elements : ar.elements[k] = GenRoute(route, featureKebab)

PbvProg == prog = "post-bootstrap-verify"

PbvDone == PbvProg /\ pc = "done"

\* the step of that name was executed and its command succeeded
Passed(name) == \E i \in DOMAIN ran : ran[i].name = name /\ ran[i].ok

PbvSuccess ==
    /\ PbvDone
    /\ exitCode = 0
    /\ out.lines = <<[summary |-> "Project is ready for development"]>>

\* the steps executed whose command failed, critical or not
FailedSteps(critical) ==
    {i \in DOMAIN ran : ~ran[i].ok /\ steps[ran[i].at].critical = critical}

\* C22: a run that ended in success (exit 0 and the 'Project is ready for
\* development' summary) has executed every step with success: the build,
\* lint and format steps, and also the verification gates and the unit
\* tests.
C22_SuccessMeansAllPassed ==
    PbvSuccess => \A k \in DOMAIN steps : Passed(steps[k].name)

\* C25: the steps executed are the first steps of the declared list, in that
\* order, each once; a failed critical step is the last step executed, and
\* from then on git initialization is not attempted and the exit status,
\* once there, is 1; `failed` is never above 1.
C25_OrderedFailFast ==
    PbvProg =>
        /\ Len(ran) <= Len(steps)
        /\ \A i \in DOMAIN ran : ran[i].at = i /\ ran[i].name = steps[i].name
        /\ \A i \in FailedSteps(TRUE) :
             /\ i = Len(ran)
             /\ pc # "steps"
             /\ ~continueVerification
             /\ ~git.attempted
             /\ pc = "done" => exitCode = 1
        /\ failed \in {0, 1}
        /\ failed = Cardinality(FailedSteps(TRUE))

\* the build failed after three steps: nothing ran after it, exit 1
C25_Witness ==
    /\ PbvDone
    /\ Len(ran) = 4
    /\ ~ran[4].ok
    /\ ran[4].name = "Build"
    /\ failed = 1
    /\ exitCode = 1
    /\ git = NoGit

RunOf(t) ==
    CASE prog = "verify-app-routes" -> RunAppRoutes(t)
      [] prog = "verify-no-cross-feature-imports" -> RunCrossFeature(t)
      [] prog = "verify-feature-routes" -> RunFeatureRoutes(t)
      [] OTHER -> RunStructure(t)

\* C23: a checker never writes: in every state of its run the tree is the
\* tree the process started from; and what it ends with is a function of
\* that tree (listing order included): the violation list is the list of the
\* whole run over the start tree and the exit status is 1 exactly when that
\* run is fatal or lists a violation.  A second run therefore starts from the
\* same tree and ends with the same violations and the same exit status.
C23_ChecksAreDeterministic ==
    prog \in CheckerProgs =>
        /\ CurrentTree = startTree
        /\ Ended =>
             LET r == RunOf(startTree)
             IN  /\ errors = r.errors
                 /\ FatalEnd <=> r.fatal
                 /\ exitCode = IF r.fatal \/ r.errors # <<>> THEN 1 ELSE 0

\* a cross-feature run that ended with a violation over a listing of two files
C23_Witness ==
    /\ prog = "verify-no-cross-feature-imports"
    /\ pc = "done"
    /\ Len(featureFiles) = 2
    /\ errors # <<>>
    /\ exitCode = 1
    /\ CurrentTree = startTree


(***************************************************************************)
(* loadComponent in the feature routes files                               *)
(***************************************************************************)
\* the element declares loadComponent without an import of a '.page' file
LoadsNonPage(el) ==
    el.isObj /\ el.loadComponent.present /\ ~loadComponentImportsPage(el.loadComponent)

\* how many elements of the array, at the top or in a `children` array, do
NonPageLoaders(ex) ==
    Cardinality({k \in DOMAIN ex.elements : LoadsNonPage(ex.elements[k])})
    + SumTo([k \in DOMAIN ex.elements |->
                Cardinality({j \in DOMAIN ex.elements[k].children :
                                LoadsNonPage(ex.elements[k].children[j])})],
            Len(ex.elements))

NonPageErrors(file, export) ==
    {i \in DOMAIN errors :
        errors[i] = FeatErr("loadComponent not importing a *.page file", file, export)}

\* C24: a finished feature-route run has reported, for every exported array
\* of every routes file, one "loadComponent not importing a *.page file"
\* violation for each element that declares such a loadComponent, whatever
\* its index and whether it stands in the array itself or in the `children`
\* array of an element.
C24_PageOnlyEverywhere ==
    (FeatProg /\ pc = "done") =>
        \A k \in DOMAIN features :
            "routes" \in features[k].files =>
                \A a \in DOMAIN features[k].exported :
                    Cardinality(NonPageErrors(features[k].name,
                                              features[k].exported[a].name))
                        = NonPageLoaders(features[k].exported[a])


(***************************************************************************)
(* Registrations, one after the other                                      *)
(***************************************************************************)
GenProg == prog = "generate-feature"

WildcardIndices(ar) ==
    {k \in DOMAIN ar.elements : ar.elements[k].isObj /\ ar.elements[k].path = "**"}

\* the table has exactly one wildcard entry and it is the last element
WildcardLast(ar) == ar.exists /\ WildcardIndices(ar) = {Len(ar.elements)}

\* the sequence without its i-th element
Without(s, i) == SubSeq(s, 1, i - 1) \o SubSeq(s, i + 1, Len(s))

EntriesFor(ar, route) ==
    {k \in DOMAIN ar.elements : ar.elements[k].isObj /\ ar.elements[k].path = route}

StartFiles ==
    IF HasFeature(startTree.features, featureKebab)
      THEN startTree.features[FeatureIndex(startTree.features, featureKebab)].files
      ELSE {}

\* the positions in GenTargets of the files that existed before the run
ExistingTargets == {k \in DOMAIN GenTargets : GenTargets[k] \in StartFiles}

\* C29: in a run without --overwrite every file that existed before the run
\* is still there with the content it had (the exported arrays of a routes
\* file, the imports of the other files); and when some target file existed,
\* the run never ends normally: it dies with exit status 1 at the first such
\* file, having written only the targets before it, and app.routes.ts is in
\* every state of the run the file it was before, --register or not.
C29_NoSilentOverwrite ==
    (GenProg /\ ~args.overwrite) =>
        /\ \A i \in DOMAIN startTree.features :
             /\ features[i].name = startTree.features[i].name
             /\ startTree.features[i].files \subseteq features[i].files
             /\ "routes" \in startTree.features[i].files =>
                  features[i].exported = startTree.features[i].exported
        /\ \A k \in DOMAIN startTree.featureFiles :
             \E j \in DOMAIN featureFiles : featureFiles[j] = startTree.featureFiles[k]
        /\ ExistingTargets # {} =>
             LET first == CHOOSE k \in ExistingTargets : \A j \in ExistingTargets : k <= j
             IN  /\ pc # "done"
                 /\ appRoutes = startTree.appRoutes
                 /\ (pc = "write" => idx <= first)
                 /\ pc = "died" =>
                      /\ exitCode = 1
                      /\ out.stream = "stderr"
                      /\ idx = first
                      /\ GeneratedFiles = StartFiles \cup {GenTargets[k] : k \in 1..(first - 1)}

\* a run with --register over an edited feature without its routes file: the
\* routes file was written, then the run died at the page file
C29_Witness ==
    /\ GenProg
    /\ ~args.overwrite
    /\ args.register
    /\ pc = "died"
    /\ idx = 2
    /\ "routes" \notin StartFiles
    /\ "routes" \in GeneratedFiles
    /\ \E k \in DOMAIN startTree.featureFiles :
         /\ startTree.featureFiles[k].name = "a.data.ts"
         /\ Len(startTree.featureFiles[k].imports) = 3
    /\ appRoutes = startTree.appRoutes


(***************************************************************************)
(* ThemeService.toggle                                                     *)
(***************************************************************************)
ThemeProg == prog = "ThemeService"

\* C30: toggle() sets the scheme to 'light' if isDark() was true and to
\* 'dark' otherwise, never to 'auto', whatever the scheme was, and isDark()
\* afterwards is the negation of what it was; so, while the system
\* preference stays as it is and set() is not called, the values of isDark()
\* after consecutive toggles alternate and every second toggle restores the
\* value.
C30_ToggleInverts ==
    /\ [][ThemeToggle =>
            /\ schemeSignal' = IF isDark(schemeSignal, prefersDark)
                                 THEN "light" ELSE "dark"
            /\ schemeSignal' # "auto"
            /\ isDark(schemeSignal', prefersDark')
                 = ~isDark(schemeSignal, prefersDark)]_vars
    /\ [](ThemeProg =>
            /\ darkLog # <<>>
            /\ darkLog[Len(darkLog)] = isDark(schemeSignal, prefersDark)
            /\ \A i \in DOMAIN darkLog :
                 /\ (i + 1 \in DOMAIN darkLog) => darkLog[i + 1] = ~darkLog[i]
                 /\ (i + 2 \in DOMAIN darkLog) => darkLog[i + 2] = darkLog[i])

\* two toggles from 'auto' on a dark system: dark, light, dark again, and the
\* effect has stored the scheme
C30_Witness ==
    /\ ThemeProg
    /\ themeSource = "browser-preference"
    /\ prefersDark
    /\ darkLog = <<TRUE, FALSE, TRUE>>
    /\ schemeSignal = "dark"
    /\ localStorage = "dark"
    /\ htmlDark

====
